---- MODULE Spec2Model ----
(***************************************************************************)
(* kms-screenshot: the capture run of src/kms-screenshot.c (lines 1-2112). *)
(*                                                                         *)
(* The program is single threaded.  Its state is the position of the       *)
(* program (pc), the locals that decide what the cleanup code does, and    *)
(* the ordered record (log) of every resource acquisition, resource        *)
(* release and externally visible call it has made.  Every call into       *)
(* libdrm, libdrm_amdgpu, Vulkan or libc that the code checks for failure  *)
(* is one action; the action draws the call's outcome from BOOLEAN and     *)
(* carries out the whole branch the code takes on that outcome, including  *)
(* the unwinding calls and the return to the caller.                       *)
(***************************************************************************)
EXTENDS Integers, Sequences, FiniteSets, TLC

VARIABLES
    pc,            \* position in the program
    log,           \* sequence of events, in program order
    driver,        \* what drmGetVersion reports for the device
    modifier,      \* fb2->modifier of the target framebuffer
    pixel_format,  \* fb2->pixel_format of the target framebuffer
    list_only,     \* main: --list given
    fb_id,         \* main: 0 = auto-detect, otherwise the id given by --fb
    live,          \* handle-valued locals and fields that are not null
    uninit,        \* locals declared without initializer and not yet assigned
    result,        \* vulkan_deswizzle_framebuffer: the local VkResult result
    ret,           \* return values of the functions that have returned
    queue_flags,   \* capabilities of the queue family init_vulkan_context chose
    exit_code,     \* process exit status, once exited
    planes,        \* find_primary_framebuffer: the planes the device reports
    found_fb,      \* find_primary_framebuffer: its return value, 0 = not called
    fb,            \* the scanned-out framebuffer: fb2 metadata and its memory
    dst_cpu,       \* capture_framebuffer_amdgpu: the mapped bytes of dst_bo
    rgb_data,      \* the RGB buffer handed to convert_to_rgb24 and write_ppm
    file,          \* the bytes of the output file, <<>> while it does not exist
    create_req,    \* capture_framebuffer: the dumb buffer the kernel created
    linear_map,    \* capture_framebuffer: the mapped bytes of the dumb buffer
    argv,          \* main: the arguments after the program name
    argi,          \* main: the loop variable i of the argument loop
    exposure,      \* main: float exposure
    tonemap_mode,  \* main: uint32_t tonemap_mode
    push_constants,\* apply_tone_mapping: the block handed to vkCmdPushConstants
    color,         \* hdr_tonemap.comp main: the operations applied to the pixel
    imageSize,     \* extent of the images bound to the kernel, <<width, height>>
    group_count,   \* apply_tone_mapping: <<group_count_x, group_count_y>>
    gl_GlobalInvocationID, \* the invocation of the dispatch that runs next
    loads,         \* how often each pixel of inputImage was loaded
    stores,        \* how often each pixel of outputImage was stored
    skipped,       \* the invocations that returned at the bounds check
    src_va,        \* amdgpu_copy_buffer: uint64_t src_va
    dst_va,        \* amdgpu_copy_buffer: uint64_t dst_va
    copy_size,     \* amdgpu_copy_buffer: uint64_t size
    ib,            \* amdgpu_copy_buffer: the dwords written to the IB
    ibs_request,   \* amdgpu_copy_buffer: struct amdgpu_cs_request, with its IB info
    fence_status,  \* amdgpu_copy_buffer: struct amdgpu_cs_fence and the wait on it
    submitted,     \* the requests amdgpu_cs_submit accepted, with the IB contents
    curve          \* hdr_tonemap.comp main: color around steps 6 and 7, as numbers

vars == <<pc, log, driver, modifier, pixel_format, list_only, fb_id, live,
          uninit, result, ret, queue_flags, exit_code, planes, found_fb,
          fb, dst_cpu, rgb_data, file, create_req, linear_map, argv, argi,
          exposure, tonemap_mode, push_constants, color, imageSize,
          group_count, gl_GlobalInvocationID, loads, stores, skipped,
          src_va, dst_va, copy_size, ib, ibs_request, fence_status, submitted,
          curve>>

----------------------------------------------------------------------------
(* Program constants *)

DRM_FORMAT_MOD_LINEAR == 0

\* A vendor tiling modifier: any value other than 0 / DRM_FORMAT_MOD_LINEAR.
Modifiers == {DRM_FORMAT_MOD_LINEAR, 1}

\* The formats convert_to_rgb24 recognizes, and one it does not.
Formats == {"XRGB8888", "ARGB8888", "XBGR8888", "ABGR8888", "RGB565",
            "ABGR16161616", "NV12"}

\* drmGetVersion: the driver name, or "NULL" when the query yields nothing.
\* The answer belongs to the device, so every call in one run gets the same.
Drivers == {"amdgpu", "i915", "NULL"}

\* Queue capability bits of a queue family.
QueueBits == {"GRAPHICS", "COMPUTE", "TRANSFER"}

\* Largest number of queue families a physical device reports in the model.
MaxQueueFamilies == 2

QueueFamilyLists ==
    UNION {[1..n -> SUBSET QueueBits] : n \in 0..MaxQueueFamilies}

----------------------------------------------------------------------------
(* The event log *)

\* An event has a kind k, a subject r and an attribute a.
Acq(r) == [k |-> "acq", r |-> r, a |-> ""]  \* resource r was created / obtained
Rel(r) == [k |-> "rel", r |-> r, a |-> ""]  \* a release call was issued on r
Ev(n)  == [k |-> "ev",  r |-> n, a |-> ""]  \* any other call or program point

Has(e) == \E i \in DOMAIN log : log[i] = e
Count(e) == Cardinality({i \in DOMAIN log : log[i] = e})
First(e) == CHOOSE i \in DOMAIN log : log[i] = e /\ \A j \in 1..(i-1) : log[j] # e
Last(e) == CHOOSE i \in DOMAIN log : log[i] = e /\ \A j \in (i+1)..Len(log) : log[j] # e
\* every e2 in the log is preceded by some e1
Precedes(e1, e2) ==
    \A i \in DOMAIN log : log[i] = e2 => \E j \in 1..(i-1) : log[j] = e1

Returned(f) == f \in DOMAIN ret
SetRet(f, v) == (f :> v) @@ ret

Tiled(m) == m # 0 /\ m # DRM_FORMAT_MOD_LINEAR

\* The framebuffer while its contents are not followed.
NoFramebuffer ==
    [width |-> 0, height |-> 0, pitch |-> 0, pixel_format |-> "", mem |-> <<>>]

\* struct drm_mode_create_dumb create_req = {0}
NoDumbBuffer == [width |-> 0, height |-> 0, pitch |-> 0, size |-> 0]

\* No block has been handed to vkCmdPushConstants.
NoPushConstants == [exposure |-> "", tonemapMode |-> ""]

\* main's parameters and the kernel while they are not followed: the
\* defaults of 2019-2020 as the tuples the argument runs keep them in.
NoInvocation == <<-1, -1>>

\* The tone curve is not followed.
NoCurve == [tonemapMode |-> <<0, 0>>, before |-> <<>>, mapped |-> <<>>, clamped |-> <<>>]

\* No dispatch is followed.
DispatchIdle ==
    /\ curve = NoCurve
    /\ imageSize = <<0, 0>> /\ group_count = <<0, 0>>
    /\ gl_GlobalInvocationID = NoInvocation
    /\ loads = <<>> /\ stores = <<>> /\ skipped = {}

NoRequest == [ip_type |-> "", ring |-> -1, number_of_ibs |-> 0, ib_size |-> 0,
              seq_no |-> -1]
NoFence == [ip_type |-> "", ip_instance |-> -1, ring |-> -1, fence |-> -1,
            timeout |-> ""]

\* No copy packet is followed.
PacketIdle ==
    /\ src_va = <<0, 0, 0, 0>> /\ dst_va = <<0, 0, 0, 0>>
    /\ copy_size = <<0, 0, 0, 0>>
    /\ ib = <<>> /\ ibs_request = NoRequest /\ fence_status = NoFence
    /\ submitted = <<>>

ParamIdle ==
    /\ DispatchIdle /\ PacketIdle
    /\ argv = <<>> /\ argi = 1
    /\ exposure = [class |-> "finite", negative |-> FALSE, mant |-> 1, exp |-> 0]
    /\ tonemap_mode = <<0, 2>>
    /\ push_constants = NoPushConstants
    /\ color = <<>>

----------------------------------------------------------------------------
(* drm_format_to_vulkan, src/kms-screenshot.c:643 *)

drm_format_to_vulkan(f) ==
    CASE f = "ABGR16161616" -> "R16G16B16A16_UNORM"
      [] f = "ARGB8888"     -> "B8G8R8A8_UNORM"
      [] f = "XRGB8888"     -> "B8G8R8A8_UNORM"
      [] f = "ABGR8888"     -> "R8G8B8A8_UNORM"
      [] f = "XBGR8888"     -> "R8G8B8A8_UNORM"
      [] OTHER              -> "UNDEFINED"

----------------------------------------------------------------------------
(* Initial state: main after argument parsing, before the device is opened *)

Init ==
    /\ pc = "main_open"
    /\ log = <<>>
    /\ driver \in Drivers
    /\ modifier \in Modifiers
    /\ pixel_format \in Formats
    /\ list_only \in BOOLEAN
    /\ fb_id \in {0, 40}
    /\ live = {}
    /\ uninit = {}
    /\ result = "VK_SUCCESS"
    /\ ret = <<>>
    /\ queue_flags = {}
    /\ exit_code = -1
    /\ planes = <<>>
    /\ found_fb = 0
    /\ fb = NoFramebuffer
    /\ dst_cpu = <<>>
    /\ rgb_data = <<>>
    /\ file = <<>>
    /\ create_req = NoDumbBuffer
    /\ linear_map = <<>>
    /\ ParamIdle

Inputs == <<driver, modifier, pixel_format, list_only>>

\* The arguments and results of the routines that are followed value by
\* value (DataSpec below); the capture run leaves them alone.
DispatchVars == <<imageSize, group_count, gl_GlobalInvocationID, loads, stores,
                  skipped, curve>>
PacketVars == <<src_va, dst_va, copy_size, ib, ibs_request, fence_status, submitted>>
ParamVars == <<argv, argi, exposure, tonemap_mode, push_constants, color,
               DispatchVars, PacketVars>>

DataVars == <<planes, found_fb, fb, dst_cpu, rgb_data, file, create_req,
              linear_map, ParamVars>>

----------------------------------------------------------------------------
(* main, src/kms-screenshot.c:2058-2111 *)

\* open(device_path) and drmSetClientCap (whose failure only warns)
MainOpen ==
    /\ pc = "main_open"
    /\ \E ok \in BOOLEAN :
         IF ok
         THEN /\ log' = log \o <<Acq("drm_fd"), Ev("drmSetClientCap")>>
              /\ pc' = IF list_only THEN "main_list"
                       ELSE IF fb_id = 0 THEN "main_find" ELSE "main_version"
              /\ UNCHANGED exit_code
         ELSE /\ log' = log \o <<Ev("open failed")>>
              /\ pc' = "exited"
              /\ exit_code' = 1
    /\ UNCHANGED <<Inputs, DataVars, fb_id, live, uninit, result, ret, queue_flags>>

\* if (list_only) { list_kms_devices(drm_fd); close(drm_fd); return 0; }
MainList ==
    /\ pc = "main_list"
    /\ \E planes_ok \in BOOLEAN :
         /\ ret' = SetRet("list", IF planes_ok THEN 0 ELSE -1)
         /\ log' = log \o <<Ev("enter:list_kms_devices"), Rel("drm_fd")>>
    /\ pc' = "exited"
    /\ exit_code' = 0
    /\ UNCHANGED <<Inputs, DataVars, fb_id, live, uninit, result, queue_flags>>

\* if (fb_id == 0) { found_fb = find_primary_framebuffer(drm_fd); ... }
MainFind ==
    /\ pc = "main_find"
    /\ \E found \in {-1, 40, 41} :
         /\ ret' = SetRet("find", found)
         /\ IF found < 0
            THEN /\ log' = log \o <<Ev("enter:find_primary_framebuffer"),
                                    Rel("drm_fd")>>
                 /\ pc' = "exited"
                 /\ exit_code' = 1
                 /\ UNCHANGED fb_id
            ELSE /\ log' = log \o <<Ev("enter:find_primary_framebuffer")>>
                 /\ fb_id' = found
                 /\ pc' = "main_version"
                 /\ UNCHANGED exit_code
    /\ UNCHANGED <<Inputs, DataVars, live, uninit, result, queue_flags>>

\* version = drmGetVersion(drm_fd); pick the capture routine
MainGetVersion ==
    /\ pc = "main_version"
    /\ IF driver # "NULL" /\ driver = "amdgpu"
       THEN /\ log' = log \o <<Acq("version"),
                   Ev("enter:capture_framebuffer_with_vulkan_fallback")>>
            /\ pc' = "orch_getfb2"
       ELSE /\ log' = log \o (IF driver # "NULL" THEN <<Acq("version")>> ELSE <<>>)
                          \o <<Ev("enter:capture_framebuffer")>>
            /\ pc' = "dumb_version"
    /\ UNCHANGED <<Inputs, DataVars, fb_id, live, uninit, result, ret, queue_flags, exit_code>>

\* if (version) drmFreeVersion(version); close(drm_fd); return result == 0 ? 0 : 1;
MainExit ==
    /\ pc = "main_exit"
    /\ LET res == IF driver = "amdgpu" THEN ret["orch"] ELSE ret["dumb"]
       IN /\ log' = log \o (IF driver # "NULL" THEN <<Rel("version")>> ELSE <<>>)
                        \o <<Rel("drm_fd")>>
          /\ exit_code' = IF res = 0 THEN 0 ELSE 1
    /\ pc' = "exited"
    /\ UNCHANGED <<Inputs, DataVars, fb_id, live, uninit, result, ret, queue_flags>>

----------------------------------------------------------------------------
(* capture_framebuffer_with_vulkan_fallback, src/kms-screenshot.c:1940-1980 *)

\* the tail call "return capture_framebuffer_amdgpu(...)" after drmModeFreeFB2
OrchFallback == <<Rel("orch.fb2"), Ev("enter:capture_framebuffer_amdgpu")>>

\* drmModeGetFB2 at the top of the orchestrator
OrchGetFB2 ==
    /\ pc = "orch_getfb2"
    /\ \E ok \in BOOLEAN :
         IF ok
         THEN /\ log' = log \o <<Acq("orch.fb2")>>
              /\ pc' = "orch_modifier"
              /\ UNCHANGED ret
         ELSE /\ log' = log \o <<Ev("orch: no framebuffer info")>>
              /\ ret' = SetRet("orch", -1)
              /\ pc' = "main_exit"
    /\ UNCHANGED <<Inputs, DataVars, fb_id, live, uninit, result, queue_flags, exit_code>>

\* Mutant: the modifier test is dropped, every framebuffer goes to the
\* compute path.
OrchNeedsDeswizzle_Always == modifier \in Modifiers

\* if (fb2->modifier != 0 && fb2->modifier != DRM_FORMAT_MOD_LINEAR)
OrchNeedsDeswizzle == Tiled(modifier)

OrchCheckModifier ==
    /\ pc = "orch_modifier"
    /\ IF OrchNeedsDeswizzle
       THEN /\ log' = log \o <<Ev("enter:init_vulkan_context")>>
            /\ pc' = "init_instance"
       ELSE /\ log' = log \o OrchFallback
            /\ pc' = "amdgpu_getfb2"
    /\ UNCHANGED <<Inputs, DataVars, fb_id, live, uninit, result, ret, queue_flags, exit_code>>

\* if (init_vulkan_context(&vk_ctx) == 0) { vulkan_deswizzle_framebuffer ... }
OrchAfterInit ==
    /\ pc = "orch_after_init"
    /\ IF ret["init"] = 0
       THEN /\ log' = log \o <<Ev("enter:vulkan_deswizzle_framebuffer")>>
            /\ pc' = "vk_getfb2"
       ELSE /\ log' = log \o OrchFallback
            /\ pc' = "amdgpu_getfb2"
    /\ UNCHANGED <<Inputs, DataVars, fb_id, live, uninit, result, ret, queue_flags, exit_code>>

\* Mutant: the instance is left alive.
cleanup_vulkan_context_NoInstance ==
       (IF "command_pool" \in live THEN <<Rel("command_pool")>> ELSE <<>>)
    \o (IF "device" \in live THEN <<Rel("device")>> ELSE <<>>)

\* cleanup_vulkan_context, src/kms-screenshot.c:633-641
cleanup_vulkan_context ==
       (IF "command_pool" \in live THEN <<Rel("command_pool")>> ELSE <<>>)
    \o (IF "device" \in live THEN <<Rel("device")>> ELSE <<>>)
    \o (IF "instance" \in live THEN <<Rel("instance")>> ELSE <<>>)

\* Mutant: the early "return 0" is missing, so the fallback always runs.
OrchAfterDeswizzle_NoEarlyReturn ==
    /\ pc = "orch_after_vk"
    /\ log' = log \o cleanup_vulkan_context \o OrchFallback
    /\ pc' = "amdgpu_getfb2"
    /\ UNCHANGED <<Inputs, DataVars, fb_id, live, uninit, result, ret, queue_flags, exit_code>>

\* cleanup_vulkan_context(&vk_ctx); if (result == 0) return 0; else fall back
OrchAfterDeswizzle ==
    /\ pc = "orch_after_vk"
    /\ IF ret["vk"] = 0
       THEN /\ log' = log \o cleanup_vulkan_context \o <<Rel("orch.fb2")>>
            /\ ret' = SetRet("orch", 0)
            /\ pc' = "main_exit"
       ELSE /\ log' = log \o cleanup_vulkan_context \o OrchFallback
            /\ pc' = "amdgpu_getfb2"
            /\ UNCHANGED ret
    /\ UNCHANGED <<Inputs, DataVars, fb_id, live, uninit, result, queue_flags, exit_code>>

----------------------------------------------------------------------------
(* init_vulkan_context, src/kms-screenshot.c:455-631 *)

InitFail(evs) ==
    /\ log' = log \o evs
    /\ ret' = SetRet("init", -1)
    /\ pc' = "orch_after_init"

\* vkCreateInstance
InitInstance ==
    /\ pc = "init_instance"
    /\ \E ok \in BOOLEAN :
         IF ok
         THEN /\ log' = log \o <<Acq("instance")>>
              /\ live' = live \cup {"instance"}
              /\ pc' = "init_physdev"
              /\ UNCHANGED ret
         ELSE /\ InitFail(<<Ev("vkCreateInstance failed")>>)
              /\ UNCHANGED live
    /\ UNCHANGED <<Inputs, DataVars, fb_id, uninit, result, queue_flags, exit_code>>

\* vkEnumeratePhysicalDevices and the search for a device with the three
\* extensions: no device at all, none suitable, or one selected
InitPhysicalDevice ==
    /\ pc = "init_physdev"
    /\ \E found \in {"none", "unsuitable", "selected"} :
         IF found = "selected"
         THEN /\ log' = log \o <<Ev("physical device selected")>>
              /\ pc' = "init_queue"
              /\ UNCHANGED ret
         ELSE InitFail(<<Ev("no suitable physical device"), Rel("instance")>>)
    /\ UNCHANGED <<Inputs, DataVars, fb_id, live, uninit, result, queue_flags, exit_code>>

\* the loop at 563-569: first family with GRAPHICS or TRANSFER, 0 = none
SelectQueueFamily(fams) ==
    LET ok(i) == fams[i] \cap {"GRAPHICS", "TRANSFER"} # {}
    IN IF \E i \in DOMAIN fams : ok(i)
       THEN CHOOSE i \in DOMAIN fams : ok(i) /\ \A j \in 1..(i-1) : ~ok(j)
       ELSE 0

InitQueueFamily ==
    /\ pc = "init_queue"
    /\ \E fams \in QueueFamilyLists :
         LET q == SelectQueueFamily(fams)
         IN IF q # 0
            THEN /\ queue_flags' = fams[q]
                 /\ log' = log \o <<Ev("queue family selected")>>
                 /\ pc' = "init_device"
                 /\ UNCHANGED ret
            ELSE /\ InitFail(<<Ev("no suitable queue family"), Rel("instance")>>)
                 /\ UNCHANGED queue_flags
    /\ UNCHANGED <<Inputs, DataVars, fb_id, live, uninit, result, exit_code>>

\* vkCreateDevice
InitDevice ==
    /\ pc = "init_device"
    /\ \E ok \in BOOLEAN :
         IF ok
         THEN /\ log' = log \o <<Acq("device")>>
              /\ live' = live \cup {"device"}
              /\ pc' = "init_pool"
              /\ UNCHANGED ret
         ELSE /\ InitFail(<<Ev("vkCreateDevice failed"), Rel("instance")>>)
              /\ UNCHANGED live
    /\ UNCHANGED <<Inputs, DataVars, fb_id, uninit, result, queue_flags, exit_code>>

\* vkGetDeviceQueue, vkCreateCommandPool
InitCommandPool ==
    /\ pc = "init_pool"
    /\ \E ok \in BOOLEAN :
         IF ok
         THEN /\ log' = log \o <<Acq("command_pool")>>
              /\ live' = live \cup {"command_pool"}
              /\ ret' = SetRet("init", 0)
              /\ pc' = "orch_after_init"
         ELSE /\ InitFail(<<Ev("vkCreateCommandPool failed"), Rel("device"),
                            Rel("instance")>>)
              /\ UNCHANGED live
    /\ UNCHANGED <<Inputs, DataVars, fb_id, uninit, result, queue_flags, exit_code>>

----------------------------------------------------------------------------
(* write_ppm, src/kms-screenshot.c:662-675: fopen may fail; on success the  *)
(* header and the raster are written and the file is closed                *)

write_ppm(opened) ==
    IF opened
    THEN <<Ev("write_ppm"), Acq("output file"), Ev("fwrite raster"),
           Rel("output file")>>
    ELSE <<Ev("write_ppm"), Ev("fopen failed")>>

\* convert_to_rgb24(src, dst, w, h, format, stride) filling the whole raster
Convert(src, format) == [k |-> "convert_to_rgb24", r |-> src, a |-> format]

----------------------------------------------------------------------------
(* vulkan_deswizzle_framebuffer, src/kms-screenshot.c:1479-1937 *)

\* int needs_tone_mapping = (fb2->pixel_format == DRM_FORMAT_ABGR16161616);
needs_tone_mapping == pixel_format = "ABGR16161616"

\* the .format of a VkImageCreateInfo handed to vkCreateImage
ImageFormat(image, format) == [k |-> "image format", r |-> image, a |-> format]

\* VkFormat final_format = needs_tone_mapping ? VK_FORMAT_R8G8B8A8_UNORM : vk_format;
VkFinalFormat ==
    IF needs_tone_mapping THEN "R8G8B8A8_UNORM"
    ELSE drm_format_to_vulkan(pixel_format)

\* cleanup_compute_pipeline, src/kms-screenshot.c:212-227
cleanup_compute_pipeline ==
       (IF "descriptor_pool" \in live THEN <<Rel("descriptor_pool")>> ELSE <<>>)
    \o (IF "compute_pipeline" \in live THEN <<Rel("compute_pipeline")>> ELSE <<>>)
    \o (IF "pipeline_layout" \in live THEN <<Rel("pipeline_layout")>> ELSE <<>>)
    \o (IF "descriptor_set_layout" \in live
        THEN <<Rel("descriptor_set_layout")>> ELSE <<>>)

\* if (needs_tone_mapping) cleanup_compute_pipeline(ctx, &compute_pipeline);
VkPipelineCleanup ==
    IF needs_tone_mapping THEN cleanup_compute_pipeline ELSE <<>>

\* an early "return -1" of vulkan_deswizzle_framebuffer after the calls evs
VkReturnFail(evs) ==
    /\ log' = log \o evs
    /\ ret' = SetRet("vk", -1)
    /\ pc' = "orch_after_vk"

\* "goto cleanup" after the calls evs, leaving result at r
VkGotoCleanup(evs, r) ==
    /\ log' = log \o evs
    /\ result' = r
    /\ pc' = "vk_cleanup"

VkGetFB2 ==
    /\ pc = "vk_getfb2"
    /\ \E ok \in BOOLEAN :
         IF ok
         THEN /\ log' = log \o <<Acq("vk.fb2")>>
              /\ pc' = "vk_format"
              /\ UNCHANGED ret
         ELSE VkReturnFail(<<Ev("vk: no framebuffer info")>>)
    /\ UNCHANGED <<Inputs, DataVars, fb_id, live, uninit, result, queue_flags, exit_code>>

\* if (vk_format == VK_FORMAT_UNDEFINED) { drmModeFreeFB2(fb2); return -1; }
VkCheckFormat ==
    /\ pc = "vk_format"
    /\ IF drm_format_to_vulkan(pixel_format) = "UNDEFINED"
       THEN VkReturnFail(<<Ev("vk: unsupported format"), Rel("vk.fb2")>>)
       ELSE /\ pc' = "vk_export"
            /\ UNCHANGED <<log, ret>>
    /\ UNCHANGED <<Inputs, DataVars, fb_id, live, uninit, result, queue_flags, exit_code>>

\* drmPrimeHandleToFD(drm_fd, fb2->handles[0], O_CLOEXEC, &dmabuf_fd)
VkExportDmabuf ==
    /\ pc = "vk_export"
    /\ \E ok \in BOOLEAN :
         IF ok
         THEN /\ log' = log \o <<Acq("dmabuf_fd")>>
                            \o (IF needs_tone_mapping
                                THEN <<Ev("enter:create_tonemap_compute_pipeline")>>
                                ELSE <<>>)
              /\ pc' = IF needs_tone_mapping THEN "pipe_shader" ELSE "vk_src_image"
              /\ UNCHANGED ret
         ELSE VkReturnFail(<<Ev("vk: dmabuf export failed"), Rel("vk.fb2")>>)
    /\ UNCHANGED <<Inputs, DataVars, fb_id, live, uninit, result, queue_flags, exit_code>>

----------------------------------------------------------------------------
(* create_tonemap_compute_pipeline, src/kms-screenshot.c:78-210, and the   *)
(* caller's branch at 1520-1528 when it fails                              *)

PipeFail(evs) ==
    /\ log' = log \o evs \o <<Rel("dmabuf_fd"), Rel("vk.fb2")>>
    /\ ret' = ("create_pipeline" :> -1) @@ ("vk" :> -1) @@ ret
    /\ pc' = "orch_after_vk"

PipeShaderModule ==
    /\ pc = "pipe_shader"
    /\ \E ok \in BOOLEAN :
         IF ok
         THEN /\ log' = log \o <<Acq("shader_module")>>
              /\ pc' = "pipe_dsl"
              /\ UNCHANGED ret
         ELSE PipeFail(<<Ev("vkCreateShaderModule failed")>>)
    /\ UNCHANGED <<Inputs, DataVars, fb_id, live, uninit, result, queue_flags, exit_code>>

PipeDescriptorSetLayout ==
    /\ pc = "pipe_dsl"
    /\ \E ok \in BOOLEAN :
         IF ok
         THEN /\ log' = log \o <<Acq("descriptor_set_layout")>>
              /\ live' = live \cup {"descriptor_set_layout"}
              /\ pc' = "pipe_layout"
              /\ UNCHANGED ret
         ELSE /\ PipeFail(<<Ev("vkCreateDescriptorSetLayout failed"),
                            Rel("shader_module")>>)
              /\ UNCHANGED live
    /\ UNCHANGED <<Inputs, DataVars, fb_id, uninit, result, queue_flags, exit_code>>

PipeLayout ==
    /\ pc = "pipe_layout"
    /\ \E ok \in BOOLEAN :
         IF ok
         THEN /\ log' = log \o <<Acq("pipeline_layout")>>
              /\ live' = live \cup {"pipeline_layout"}
              /\ pc' = "pipe_pipeline"
              /\ UNCHANGED ret
         ELSE /\ PipeFail(<<Ev("vkCreatePipelineLayout failed"),
                            Rel("descriptor_set_layout"), Rel("shader_module")>>)
              /\ UNCHANGED live
    /\ UNCHANGED <<Inputs, DataVars, fb_id, uninit, result, queue_flags, exit_code>>

PipeComputePipeline ==
    /\ pc = "pipe_pipeline"
    /\ \E ok \in BOOLEAN :
         IF ok
         THEN /\ log' = log \o <<Acq("compute_pipeline")>>
              /\ live' = live \cup {"compute_pipeline"}
              /\ pc' = "pipe_pool"
              /\ UNCHANGED ret
         ELSE /\ PipeFail(<<Ev("vkCreateComputePipelines failed"),
                            Rel("pipeline_layout"), Rel("descriptor_set_layout"),
                            Rel("shader_module")>>)
              /\ UNCHANGED live
    /\ UNCHANGED <<Inputs, DataVars, fb_id, uninit, result, queue_flags, exit_code>>

PipeDescriptorPool ==
    /\ pc = "pipe_pool"
    /\ \E ok \in BOOLEAN :
         IF ok
         THEN /\ log' = log \o <<Acq("descriptor_pool"), Rel("shader_module")>>
              /\ live' = live \cup {"descriptor_pool"}
              /\ ret' = SetRet("create_pipeline", 0)
              /\ pc' = "vk_src_image"
         ELSE /\ PipeFail(<<Ev("vkCreateDescriptorPool failed"),
                            Rel("compute_pipeline"), Rel("pipeline_layout"),
                            Rel("descriptor_set_layout"), Rel("shader_module")>>)
              /\ UNCHANGED live
    /\ UNCHANGED <<Inputs, DataVars, fb_id, uninit, result, queue_flags, exit_code>>

----------------------------------------------------------------------------
(* vulkan_deswizzle_framebuffer, continued: import of the tiled image      *)

\* vkCreateImage(src_image_info) with the explicit-modifier chain
VkCreateSrcImage ==
    /\ pc = "vk_src_image"
    /\ \E ok \in BOOLEAN :
         IF ok
         THEN /\ log' = log \o <<ImageFormat("src_image",
                                             drm_format_to_vulkan(pixel_format)),
                                 Acq("src_image")>>
              /\ pc' = "vk_src_memory"
              /\ UNCHANGED ret
         ELSE VkReturnFail(<<Ev("vk: source image failed")>> \o VkPipelineCleanup
                           \o <<Rel("dmabuf_fd"), Rel("vk.fb2")>>)
    /\ UNCHANGED <<Inputs, DataVars, fb_id, live, uninit, result, queue_flags, exit_code>>

\* vkAllocateMemory with VkImportMemoryFdInfoKHR: the external-memory import
VkImportMemory ==
    /\ pc = "vk_src_memory"
    /\ \E ok \in BOOLEAN :
         IF ok
         THEN /\ log' = log \o <<Acq("src_memory")>>
              /\ pc' = "vk_src_bind"
              /\ UNCHANGED ret
         ELSE VkReturnFail(<<Ev("vk: dmabuf import failed"), Rel("src_image")>>
                           \o VkPipelineCleanup
                           \o <<Rel("dmabuf_fd"), Rel("vk.fb2")>>)
    /\ UNCHANGED <<Inputs, DataVars, fb_id, live, uninit, result, queue_flags, exit_code>>

\* vkBindImageMemory(src_image, src_memory); then the declarations at
\* 1635-1638: intermediate_* = VK_NULL_HANDLE, dst_image and dst_memory
\* without initializer
VkBindSrcMemory ==
    /\ pc = "vk_src_bind"
    /\ \E ok \in BOOLEAN :
         IF ok
         THEN /\ log' = log \o <<Ev("src_image bound")>>
              /\ uninit' = {"dst_image", "dst_memory"}
              /\ pc' = IF needs_tone_mapping THEN "vk_inter_image" ELSE "vk_dst_image"
              /\ UNCHANGED ret
         ELSE /\ VkReturnFail(<<Ev("vk: source bind failed"), Rel("src_memory"),
                                Rel("src_image")>>
                              \o VkPipelineCleanup
                              \o <<Rel("dmabuf_fd"), Rel("vk.fb2")>>)
              /\ UNCHANGED uninit
    /\ UNCHANGED <<Inputs, DataVars, fb_id, live, result, queue_flags, exit_code>>

----------------------------------------------------------------------------
(* vulkan_deswizzle_framebuffer, continued: linear images (1642-1767)      *)

\* vkCreateImage(intermediate_info), HDR only
VkCreateIntermediateImage ==
    /\ pc = "vk_inter_image"
    /\ \E ok \in BOOLEAN :
         IF ok
         THEN /\ log' = log \o <<ImageFormat("intermediate_image",
                                             drm_format_to_vulkan(pixel_format)),
                                 Acq("intermediate_image")>>
              /\ live' = live \cup {"intermediate_image"}
              /\ pc' = "vk_inter_memtype"
              /\ UNCHANGED result
         ELSE /\ VkGotoCleanup(<<Ev("vk: intermediate image failed")>>, "VK_ERROR")
              /\ UNCHANGED live
    /\ UNCHANGED <<Inputs, DataVars, fb_id, uninit, ret, queue_flags, exit_code>>

\* the memory-type loop at 1672-1684; "goto cleanup" leaves result as the
\* preceding vkCreateImage set it
VkIntermediateMemoryType ==
    /\ pc = "vk_inter_memtype"
    /\ \E found \in BOOLEAN :
         IF found
         THEN /\ pc' = "vk_inter_alloc"
              /\ UNCHANGED <<log, result>>
         ELSE VkGotoCleanup(<<Ev("vk: no memory type for intermediate image")>>,
                            result)
    /\ UNCHANGED <<Inputs, DataVars, fb_id, live, uninit, ret, queue_flags, exit_code>>

VkAllocIntermediateMemory ==
    /\ pc = "vk_inter_alloc"
    /\ \E ok \in BOOLEAN :
         IF ok
         THEN /\ log' = log \o <<Acq("intermediate_memory")>>
              /\ live' = live \cup {"intermediate_memory"}
              /\ pc' = "vk_inter_bind"
              /\ UNCHANGED result
         ELSE /\ VkGotoCleanup(<<Ev("vk: intermediate memory failed")>>, "VK_ERROR")
              /\ UNCHANGED live
    /\ UNCHANGED <<Inputs, DataVars, fb_id, uninit, ret, queue_flags, exit_code>>

VkBindIntermediateMemory ==
    /\ pc = "vk_inter_bind"
    /\ \E ok \in BOOLEAN :
         IF ok
         THEN /\ log' = log \o <<Ev("intermediate_image bound")>>
              /\ pc' = "vk_dst_image"
              /\ UNCHANGED result
         ELSE VkGotoCleanup(<<Ev("vk: intermediate bind failed")>>, "VK_ERROR")
    /\ UNCHANGED <<Inputs, DataVars, fb_id, live, uninit, ret, queue_flags, exit_code>>

\* vkCreateImage(dst_image_info)
VkCreateDstImage ==
    /\ pc = "vk_dst_image"
    /\ \E ok \in BOOLEAN :
         IF ok
         THEN /\ log' = log \o <<ImageFormat("dst_image", VkFinalFormat),
                                 Acq("dst_image")>>
              /\ live' = live \cup {"dst_image"}
              /\ uninit' = uninit \ {"dst_image"}
              /\ pc' = "vk_dst_memtype"
              /\ UNCHANGED result
         ELSE /\ VkGotoCleanup(<<Ev("vk: destination image failed")>>, "VK_ERROR")
              /\ UNCHANGED <<live, uninit>>
    /\ UNCHANGED <<Inputs, DataVars, fb_id, ret, queue_flags, exit_code>>

\* the HOST_VISIBLE memory-type loop at 1735-1748
VkDstMemoryType ==
    /\ pc = "vk_dst_memtype"
    /\ \E found \in BOOLEAN :
         IF found
         THEN /\ pc' = "vk_dst_alloc"
              /\ UNCHANGED <<log, result>>
         ELSE VkGotoCleanup(<<Ev("vk: no memory type for destination image")>>,
                            result)
    /\ UNCHANGED <<Inputs, DataVars, fb_id, live, uninit, ret, queue_flags, exit_code>>

VkAllocDstMemory ==
    /\ pc = "vk_dst_alloc"
    /\ \E ok \in BOOLEAN :
         IF ok
         THEN /\ log' = log \o <<Acq("dst_memory")>>
              /\ live' = live \cup {"dst_memory"}
              /\ uninit' = uninit \ {"dst_memory"}
              /\ pc' = "vk_dst_bind"
              /\ UNCHANGED result
         ELSE /\ VkGotoCleanup(<<Ev("vk: destination memory failed")>>, "VK_ERROR")
              /\ UNCHANGED <<live, uninit>>
    /\ UNCHANGED <<Inputs, DataVars, fb_id, ret, queue_flags, exit_code>>

VkBindDstMemory ==
    /\ pc = "vk_dst_bind"
    /\ \E ok \in BOOLEAN :
         IF ok
         THEN /\ log' = log \o <<Ev("dst_image bound")>>
              /\ pc' = "vk_cmd_alloc"
              /\ UNCHANGED result
         ELSE VkGotoCleanup(<<Ev("vk: destination bind failed")>>, "VK_ERROR")
    /\ UNCHANGED <<Inputs, DataVars, fb_id, live, uninit, ret, queue_flags, exit_code>>

----------------------------------------------------------------------------
(* vulkan_deswizzle_framebuffer, continued: the copy submission (1771-1861) *)

Barrier(image, transition) == [k |-> "barrier", r |-> image, a |-> transition]
\* vkCmdCopyImage(src, ..., dst, ..., full extent)
CopyImage(src, dst) == [k |-> "vkCmdCopyImage", r |-> src, a |-> dst]

VkAllocCommandBuffer ==
    /\ pc = "vk_cmd_alloc"
    /\ \E ok \in BOOLEAN :
         IF ok
         THEN /\ log' = log \o <<Acq("cmd_buffer")>>
              /\ pc' = "vk_submit"
              /\ UNCHANGED result
         ELSE VkGotoCleanup(<<Ev("vk: command buffer failed")>>, "VK_ERROR")
    /\ UNCHANGED <<Inputs, DataVars, fb_id, live, uninit, ret, queue_flags, exit_code>>

\* what is recorded between vkBeginCommandBuffer and vkEndCommandBuffer:
\* the two barriers and the image copy, inside "if (needs_tone_mapping)"
VkRecordedCommands ==
    IF needs_tone_mapping
    THEN <<Barrier("src_image",
                   "UNDEFINED->TRANSFER_SRC_OPTIMAL TOP_OF_PIPE->TRANSFER"),
           Barrier("intermediate_image",
                   "UNDEFINED->TRANSFER_DST_OPTIMAL TOP_OF_PIPE->TRANSFER"),
           CopyImage("src_image", "intermediate_image")>>
    ELSE <<>>

\* record the command buffer and vkQueueSubmit it
VkSubmitCopy ==
    /\ pc = "vk_submit"
    /\ \E ok \in BOOLEAN :
         LET rec == <<Ev("vkBeginCommandBuffer")>> \o VkRecordedCommands
                    \o <<Ev("vkEndCommandBuffer")>>
         IN IF ok
            THEN /\ log' = log \o rec \o <<Ev("vkQueueSubmit:copy")>>
                 /\ pc' = "vk_wait"
                 /\ UNCHANGED result
            ELSE VkGotoCleanup(rec \o <<Ev("vk: copy submit failed")>>, "VK_ERROR")
    /\ UNCHANGED <<Inputs, DataVars, fb_id, live, uninit, ret, queue_flags, exit_code>>

\* vkQueueWaitIdle, then the branch at 1863
VkWaitCopy ==
    /\ pc = "vk_wait"
    /\ \E ok \in BOOLEAN :
         IF ok
         THEN /\ log' = log \o <<Ev("vkQueueWaitIdle:copy")>>
                            \o (IF needs_tone_mapping
                                THEN <<Ev("enter:apply_tone_mapping")>> ELSE <<>>)
              /\ pc' = IF needs_tone_mapping THEN "tm_descset" ELSE "vk_map"
              /\ UNCHANGED result
         ELSE VkGotoCleanup(<<Ev("vk: copy wait failed")>>, "VK_ERROR")
    /\ UNCHANGED <<Inputs, DataVars, fb_id, live, uninit, ret, queue_flags, exit_code>>

----------------------------------------------------------------------------
(* apply_tone_mapping(ctx, pipeline, intermediate_image, dst_image, ...),  *)
(* src/kms-screenshot.c:229-453, and the caller's branch at 1866-1875      *)

TmReturn(evs, v) ==
    /\ log' = log \o evs
    /\ ret' = SetRet("tonemap", v)
    /\ result' = IF v = 0 THEN "VK_SUCCESS" ELSE "VK_ERROR"
    /\ pc' = IF v = 0 THEN "vk_map" ELSE "vk_cleanup"

TmAllocDescriptorSet ==
    /\ pc = "tm_descset"
    /\ \E ok \in BOOLEAN :
         IF ok
         THEN /\ log' = log \o <<Acq("descriptor_set")>>
              /\ pc' = "tm_input_view"
              /\ UNCHANGED <<ret, result>>
         ELSE TmReturn(<<Ev("tm: descriptor set failed")>>, -1)
    /\ UNCHANGED <<Inputs, DataVars, fb_id, live, uninit, queue_flags, exit_code>>

TmCreateInputView ==
    /\ pc = "tm_input_view"
    /\ \E ok \in BOOLEAN :
         IF ok
         THEN /\ log' = log \o <<Acq("input_view")>>
              /\ pc' = "tm_output_view"
              /\ UNCHANGED <<ret, result>>
         ELSE TmReturn(<<Ev("tm: input view failed")>>, -1)
    /\ UNCHANGED <<Inputs, DataVars, fb_id, live, uninit, queue_flags, exit_code>>

TmCreateOutputView ==
    /\ pc = "tm_output_view"
    /\ \E ok \in BOOLEAN :
         IF ok
         THEN /\ log' = log \o <<Acq("output_view"), Ev("vkUpdateDescriptorSets")>>
              /\ pc' = "tm_cmd_alloc"
              /\ UNCHANGED <<ret, result>>
         ELSE TmReturn(<<Ev("tm: output view failed"), Rel("input_view")>>, -1)
    /\ UNCHANGED <<Inputs, DataVars, fb_id, live, uninit, queue_flags, exit_code>>

TmAllocCommandBuffer ==
    /\ pc = "tm_cmd_alloc"
    /\ \E ok \in BOOLEAN :
         IF ok
         THEN /\ log' = log \o <<Acq("tm.cmd_buffer")>>
              /\ pc' = "tm_submit"
              /\ UNCHANGED <<ret, result>>
         ELSE TmReturn(<<Ev("tm: command buffer failed"), Rel("output_view"),
                         Rel("input_view")>>, -1)
    /\ UNCHANGED <<Inputs, DataVars, fb_id, live, uninit, queue_flags, exit_code>>

\* vkCmdDispatch reading input_image and writing output_image
Dispatch(input, output) == [k |-> "vkCmdDispatch", r |-> input, a |-> output]

\* the commands recorded at 356-427
TmRecordedCommands ==
    <<Ev("tm:vkBeginCommandBuffer"),
      Barrier("intermediate_image", "UNDEFINED->GENERAL TOP_OF_PIPE->COMPUTE_SHADER"),
      Barrier("dst_image", "UNDEFINED->GENERAL TOP_OF_PIPE->COMPUTE_SHADER"),
      Ev("vkCmdBindPipeline"), Ev("vkCmdBindDescriptorSets"),
      Ev("vkCmdPushConstants"),
      Dispatch("intermediate_image", "dst_image"),
      Barrier("dst_image", "GENERAL->GENERAL COMPUTE_SHADER->HOST"),
      Ev("tm:vkEndCommandBuffer")>>

\* Mutant: the tail destroys the output view only.
TmTail_OutputViewOnly == <<Ev("tm: tone mapping applied"), Rel("output_view")>>

\* the tail of apply_tone_mapping at 441-452
TmTail == <<Ev("tm: tone mapping applied"), Rel("output_view"), Rel("input_view")>>

\* record, then vkQueueSubmit
TmSubmit ==
    /\ pc = "tm_submit"
    /\ \E ok \in BOOLEAN :
         IF ok
         THEN /\ log' = log \o TmRecordedCommands \o <<Ev("vkQueueSubmit:tonemap")>>
              /\ pc' = "tm_wait"
              /\ UNCHANGED <<ret, result>>
         ELSE TmReturn(TmRecordedCommands \o <<Ev("tm: submit failed")>> \o TmTail,
                       -1)
    /\ UNCHANGED <<Inputs, DataVars, fb_id, live, uninit, queue_flags, exit_code>>

\* vkQueueWaitIdle
TmWait ==
    /\ pc = "tm_wait"
    /\ \E ok \in BOOLEAN :
         IF ok
         THEN TmReturn(<<Ev("vkQueueWaitIdle:tonemap")>> \o TmTail, 0)
         ELSE TmReturn(<<Ev("tm: wait failed")>> \o TmTail, -1)
    /\ UNCHANGED <<Inputs, DataVars, fb_id, live, uninit, queue_flags, exit_code>>

----------------------------------------------------------------------------
(* vulkan_deswizzle_framebuffer, continued: readback and cleanup (1880-1936) *)

\* vkMapMemory(dst_memory) and vkGetImageSubresourceLayout(dst_image)
VkMapResult ==
    /\ pc = "vk_map"
    /\ \E ok \in BOOLEAN :
         IF ok
         THEN /\ log' = log \o <<Acq("mapped_data"),
                                 Ev("vkGetImageSubresourceLayout:dst_image")>>
              /\ pc' = "vk_rgb_malloc"
              /\ result' = "VK_SUCCESS"
         ELSE VkGotoCleanup(<<Ev("vk: map failed")>>, "VK_ERROR")
    /\ UNCHANGED <<Inputs, DataVars, fb_id, live, uninit, ret, queue_flags, exit_code>>

\* Mutant: the readback always converts with the source format.
VkConvertFormat_Source == pixel_format

\* uint32_t convert_format = needs_tone_mapping ? DRM_FORMAT_ABGR8888 : fb2->pixel_format;
VkConvertFormat == IF needs_tone_mapping THEN "ABGR8888" ELSE pixel_format

\* malloc(width * height * 3); if it succeeds, convert_to_rgb24
VkAllocRgb ==
    /\ pc = "vk_rgb_malloc"
    /\ \E ok \in BOOLEAN :
         IF ok
         THEN /\ log' = log \o <<Acq("vk.rgb_data"),
                                 Convert("dst_image", VkConvertFormat)>>
              /\ pc' = "vk_write"
         ELSE /\ log' = log \o <<Ev("vk: rgb malloc failed"), Rel("mapped_data")>>
              /\ pc' = "vk_cleanup"
    /\ UNCHANGED <<Inputs, DataVars, fb_id, live, uninit, result, ret, queue_flags, exit_code>>

\* write_ppm, whose result only decides a message; free; vkUnmapMemory
VkWrite ==
    /\ pc = "vk_write"
    /\ \E opened \in BOOLEAN :
         log' = log \o write_ppm(opened) \o <<Rel("vk.rgb_data"), Rel("mapped_data")>>
    /\ pc' = "vk_cleanup"
    /\ UNCHANGED <<Inputs, DataVars, fb_id, live, uninit, result, ret, queue_flags, exit_code>>

\* the releases under the label cleanup: (1920-1934).  dst_memory and
\* dst_image are tested against VK_NULL_HANDLE; while still unassigned their
\* value is indeterminate, so the test may go either way (gm, gi).
VkCleanupCalls(gm, gi) ==
       (IF "intermediate_memory" \in live THEN <<Rel("intermediate_memory")>> ELSE <<>>)
    \o (IF "intermediate_image" \in live THEN <<Rel("intermediate_image")>> ELSE <<>>)
    \o (IF "dst_memory" \in live \/ ("dst_memory" \in uninit /\ gm)
        THEN <<Rel("dst_memory")>> ELSE <<>>)
    \o (IF "dst_image" \in live \/ ("dst_image" \in uninit /\ gi)
        THEN <<Rel("dst_image")>> ELSE <<>>)
    \o <<Rel("src_memory"), Rel("src_image")>>
    \o VkPipelineCleanup
    \o <<Rel("dmabuf_fd"), Rel("vk.fb2")>>

\* cleanup: ...; return (result == VK_SUCCESS) ? 0 : -1;
VkCleanup ==
    /\ pc = "vk_cleanup"
    /\ \E gm \in BOOLEAN, gi \in BOOLEAN :
         log' = log \o VkCleanupCalls(gm, gi)
    /\ ret' = SetRet("vk", IF result = "VK_SUCCESS" THEN 0 ELSE -1)
    /\ pc' = "orch_after_vk"
    /\ UNCHANGED <<Inputs, DataVars, fb_id, live, uninit, result, queue_flags, exit_code>>

----------------------------------------------------------------------------
(* capture_framebuffer_amdgpu, src/kms-screenshot.c:901-1154 *)

\* the routine is called from the orchestrator (1979) and from
\* capture_framebuffer (1165); either caller returns its value unchanged
AmdgpuCaller ==
    IF Has(Ev("enter:capture_framebuffer_with_vulkan_fallback"))
    THEN "orch" ELSE "dumb"

AmdgpuReturn(evs, v) ==
    /\ log' = log \o evs
    /\ ret' = ("amdgpu" :> v) @@ (AmdgpuCaller :> v) @@ ret
    /\ pc' = "main_exit"

\* the release sequences that the failure branches repeat, innermost first
AmdgpuUnwindDevice == <<Rel("adev"), Rel("amdgpu.fb2")>>
AmdgpuUnwindContext == <<Rel("ctx")>> \o AmdgpuUnwindDevice
AmdgpuUnwindSrcBo == <<Rel("src_bo")>> \o AmdgpuUnwindContext
AmdgpuUnwindSrcVaRange == <<Rel("src_va_handle")>> \o AmdgpuUnwindSrcBo
\* Mutant: the source BO is freed before its VA range.
AmdgpuUnwindSrcVaMap_BoFirst ==
    <<Rel("src_va_map"), Rel("src_bo"), Rel("src_va_handle")>> \o AmdgpuUnwindContext
AmdgpuUnwindSrcVaMap == <<Rel("src_va_map")>> \o AmdgpuUnwindSrcVaRange
AmdgpuUnwindDstBo == <<Rel("dst_bo")>> \o AmdgpuUnwindSrcVaMap
AmdgpuUnwindDstVaRange == <<Rel("dst_va_handle")>> \o AmdgpuUnwindDstBo
\* Mutant: the destination's VA range is freed before its binding is unmapped.
AmdgpuUnwindDstVaMap_RangeFirst ==
    <<Rel("dst_va_handle"), Rel("dst_va_map"), Rel("dst_bo")>> \o AmdgpuUnwindSrcVaMap
AmdgpuUnwindDstVaMap == <<Rel("dst_va_map")>> \o AmdgpuUnwindDstVaRange
AmdgpuUnwindDstCpu == <<Rel("dst_cpu")>> \o AmdgpuUnwindDstVaMap

AmdgpuGetFB2 ==
    /\ pc = "amdgpu_getfb2"
    /\ \E ok \in BOOLEAN :
         IF ok
         THEN /\ log' = log \o <<Acq("amdgpu.fb2")>>
              /\ pc' = "amdgpu_dev_init"
              /\ UNCHANGED ret
         ELSE AmdgpuReturn(<<Ev("amdgpu: no framebuffer info")>>, -1)
    /\ UNCHANGED <<Inputs, DataVars, fb_id, live, uninit, result, queue_flags, exit_code>>

\* amdgpu_device_initialize
AmdgpuDeviceInit ==
    /\ pc = "amdgpu_dev_init"
    /\ \E ok \in BOOLEAN :
         IF ok
         THEN /\ log' = log \o <<Acq("adev")>>
              /\ pc' = "amdgpu_ctx"
              /\ UNCHANGED ret
         ELSE AmdgpuReturn(<<Ev("amdgpu: device init failed"), Rel("amdgpu.fb2")>>,
                           -1)
    /\ UNCHANGED <<Inputs, DataVars, fb_id, live, uninit, result, queue_flags, exit_code>>

\* amdgpu_cs_ctx_create
AmdgpuContextCreate ==
    /\ pc = "amdgpu_ctx"
    /\ \E ok \in BOOLEAN :
         IF ok
         THEN /\ log' = log \o <<Acq("ctx")>>
              /\ pc' = "amdgpu_import_flink"
              /\ UNCHANGED ret
         ELSE AmdgpuReturn(<<Ev("amdgpu: context failed")>> \o AmdgpuUnwindDevice, -1)
    /\ UNCHANGED <<Inputs, DataVars, fb_id, live, uninit, result, queue_flags, exit_code>>

\* amdgpu_bo_import(adev, amdgpu_bo_handle_type_gem_flink_name, ...)
AmdgpuImportFlink ==
    /\ pc = "amdgpu_import_flink"
    /\ \E ok \in BOOLEAN :
         IF ok
         THEN /\ log' = log \o <<Ev("import:flink"), Acq("src_bo")>>
              /\ pc' = "amdgpu_query"
         ELSE /\ log' = log \o <<Ev("import:flink"), Ev("amdgpu: flink import failed")>>
              /\ pc' = "amdgpu_export_prime"
    /\ UNCHANGED <<Inputs, DataVars, fb_id, live, uninit, result, ret, queue_flags, exit_code>>

\* drmPrimeHandleToFD inside "if (r)"; when it fails r keeps the import error
AmdgpuExportPrime ==
    /\ pc = "amdgpu_export_prime"
    /\ \E ok \in BOOLEAN :
         IF ok
         THEN /\ log' = log \o <<Acq("prime_fd")>>
              /\ pc' = "amdgpu_import_prime"
              /\ UNCHANGED ret
         ELSE AmdgpuReturn(<<Ev("amdgpu: prime export failed")>>
                           \o AmdgpuUnwindContext, -1)
    /\ UNCHANGED <<Inputs, DataVars, fb_id, live, uninit, result, queue_flags, exit_code>>

\* Mutant: close(prime_fd) is issued only when the import succeeded.
AmdgpuImportPrime_NoCloseOnFailure ==
    /\ pc = "amdgpu_import_prime"
    /\ \E ok \in BOOLEAN :
         IF ok
         THEN /\ log' = log \o <<Ev("import:dma_buf"), Acq("src_bo"), Rel("prime_fd")>>
              /\ pc' = "amdgpu_query"
              /\ UNCHANGED ret
         ELSE AmdgpuReturn(<<Ev("import:dma_buf"), Ev("amdgpu: import failed")>>
                           \o AmdgpuUnwindContext, -1)
    /\ UNCHANGED <<Inputs, DataVars, fb_id, live, uninit, result, queue_flags, exit_code>>

\* amdgpu_bo_import(adev, amdgpu_bo_handle_type_dma_buf_fd, prime_fd, ...);
\* close(prime_fd);
AmdgpuImportPrime ==
    /\ pc = "amdgpu_import_prime"
    /\ \E ok \in BOOLEAN :
         IF ok
         THEN /\ log' = log \o <<Ev("import:dma_buf"), Acq("src_bo"), Rel("prime_fd")>>
              /\ pc' = "amdgpu_query"
              /\ UNCHANGED ret
         ELSE AmdgpuReturn(<<Ev("import:dma_buf"), Rel("prime_fd"),
                             Ev("amdgpu: import failed")>>
                           \o AmdgpuUnwindContext, -1)
    /\ UNCHANGED <<Inputs, DataVars, fb_id, live, uninit, result, queue_flags, exit_code>>

\* amdgpu_bo_query_info(src_bo, &src_info)
AmdgpuQueryInfo ==
    /\ pc = "amdgpu_query"
    /\ \E ok \in BOOLEAN :
         IF ok
         THEN /\ pc' = "amdgpu_src_va_alloc"
              /\ UNCHANGED <<log, ret>>
         ELSE AmdgpuReturn(<<Ev("amdgpu: query info failed")>>
                           \o AmdgpuUnwindSrcBo, -1)
    /\ UNCHANGED <<Inputs, DataVars, fb_id, live, uninit, result, queue_flags, exit_code>>

\* amdgpu_va_range_alloc for the source
AmdgpuSrcVaAlloc ==
    /\ pc = "amdgpu_src_va_alloc"
    /\ \E ok \in BOOLEAN :
         IF ok
         THEN /\ log' = log \o <<Acq("src_va_handle")>>
              /\ pc' = "amdgpu_src_va_map"
              /\ UNCHANGED ret
         ELSE AmdgpuReturn(<<Ev("amdgpu: source VA alloc failed")>>
                           \o AmdgpuUnwindSrcBo, -1)
    /\ UNCHANGED <<Inputs, DataVars, fb_id, live, uninit, result, queue_flags, exit_code>>

\* amdgpu_bo_va_op(src_bo, ..., AMDGPU_VA_OP_MAP)
AmdgpuSrcVaMap ==
    /\ pc = "amdgpu_src_va_map"
    /\ \E ok \in BOOLEAN :
         IF ok
         THEN /\ log' = log \o <<Acq("src_va_map")>>
              /\ pc' = "amdgpu_dst_alloc"
              /\ UNCHANGED ret
         ELSE AmdgpuReturn(<<Ev("amdgpu: source VA map failed")>>
                           \o AmdgpuUnwindSrcVaRange, -1)
    /\ UNCHANGED <<Inputs, DataVars, fb_id, live, uninit, result, queue_flags, exit_code>>

\* amdgpu_bo_alloc for the destination
AmdgpuDstAlloc ==
    /\ pc = "amdgpu_dst_alloc"
    /\ \E ok \in BOOLEAN :
         IF ok
         THEN /\ log' = log \o <<Acq("dst_bo")>>
              /\ pc' = "amdgpu_dst_va_alloc"
              /\ UNCHANGED ret
         ELSE AmdgpuReturn(<<Ev("amdgpu: destination alloc failed")>>
                           \o AmdgpuUnwindSrcVaMap, -1)
    /\ UNCHANGED <<Inputs, DataVars, fb_id, live, uninit, result, queue_flags, exit_code>>

\* amdgpu_va_range_alloc for the destination
AmdgpuDstVaAlloc ==
    /\ pc = "amdgpu_dst_va_alloc"
    /\ \E ok \in BOOLEAN :
         IF ok
         THEN /\ log' = log \o <<Acq("dst_va_handle")>>
              /\ pc' = "amdgpu_dst_va_map"
              /\ UNCHANGED ret
         ELSE AmdgpuReturn(<<Ev("amdgpu: destination VA alloc failed")>>
                           \o AmdgpuUnwindDstBo, -1)
    /\ UNCHANGED <<Inputs, DataVars, fb_id, live, uninit, result, queue_flags, exit_code>>

\* amdgpu_bo_va_op(dst_bo, ..., AMDGPU_VA_OP_MAP), then the call of
\* amdgpu_copy_buffer
AmdgpuDstVaMap ==
    /\ pc = "amdgpu_dst_va_map"
    /\ \E ok \in BOOLEAN :
         IF ok
         THEN /\ log' = log \o <<Acq("dst_va_map"), Ev("enter:amdgpu_copy_buffer")>>
              /\ pc' = "copy_ib_alloc"
              /\ UNCHANGED ret
         ELSE AmdgpuReturn(<<Ev("amdgpu: destination VA map failed")>>
                           \o AmdgpuUnwindDstVaRange, -1)
    /\ UNCHANGED <<Inputs, DataVars, fb_id, live, uninit, result, queue_flags, exit_code>>

----------------------------------------------------------------------------
(* amdgpu_copy_buffer, src/kms-screenshot.c:793-899, and the caller's      *)
(* branch at 1076-1091                                                     *)

\* amdgpu_copy_buffer returns r # 0 after the calls evs; the caller unwinds
CopyFail(evs) ==
    /\ log' = log \o evs \o <<Ev("amdgpu: GPU copy failed")>> \o AmdgpuUnwindDstVaMap
    /\ ret' = ("copy" :> -1) @@ ("amdgpu" :> -1) @@ (AmdgpuCaller :> -1) @@ ret
    /\ pc' = "main_exit"

\* Mutant: the IB's VA binding is not unmapped.
CopyCleanup_NoUnmap == <<Rel("ib_va_handle"), Rel("ib_cpu"), Rel("ib_bo")>>

\* the releases under the label cleanup: (891-896)
CopyCleanup == <<Rel("ib_va_map"), Rel("ib_va_handle"), Rel("ib_cpu"), Rel("ib_bo")>>

CopyIbAlloc ==
    /\ pc = "copy_ib_alloc"
    /\ \E ok \in BOOLEAN :
         IF ok
         THEN /\ log' = log \o <<Acq("ib_bo")>>
              /\ pc' = "copy_ib_cpu_map"
              /\ UNCHANGED ret
         ELSE CopyFail(<<Ev("copy: IB alloc failed")>>)
    /\ UNCHANGED <<Inputs, DataVars, fb_id, live, uninit, result, queue_flags, exit_code>>

CopyIbCpuMap ==
    /\ pc = "copy_ib_cpu_map"
    /\ \E ok \in BOOLEAN :
         IF ok
         THEN /\ log' = log \o <<Acq("ib_cpu")>>
              /\ pc' = "copy_ib_va_alloc"
              /\ UNCHANGED ret
         ELSE CopyFail(<<Ev("copy: IB map failed"), Rel("ib_bo")>>)
    /\ UNCHANGED <<Inputs, DataVars, fb_id, live, uninit, result, queue_flags, exit_code>>

CopyIbVaAlloc ==
    /\ pc = "copy_ib_va_alloc"
    /\ \E ok \in BOOLEAN :
         IF ok
         THEN /\ log' = log \o <<Acq("ib_va_handle")>>
              /\ pc' = "copy_ib_va_map"
              /\ UNCHANGED ret
         ELSE CopyFail(<<Ev("copy: IB VA alloc failed"), Rel("ib_cpu"), Rel("ib_bo")>>)
    /\ UNCHANGED <<Inputs, DataVars, fb_id, live, uninit, result, queue_flags, exit_code>>

CopyIbVaMap ==
    /\ pc = "copy_ib_va_map"
    /\ \E ok \in BOOLEAN :
         IF ok
         THEN /\ log' = log \o <<Acq("ib_va_map"), Ev("copy: packet written")>>
              /\ pc' = "copy_submit"
              /\ UNCHANGED ret
         ELSE CopyFail(<<Ev("copy: IB VA map failed"), Rel("ib_va_handle"),
                         Rel("ib_cpu"), Rel("ib_bo")>>)
    /\ UNCHANGED <<Inputs, DataVars, fb_id, live, uninit, result, queue_flags, exit_code>>

\* amdgpu_cs_submit
CopySubmit ==
    /\ pc = "copy_submit"
    /\ \E ok \in BOOLEAN :
         IF ok
         THEN /\ log' = log \o <<Ev("amdgpu_cs_submit")>>
              /\ pc' = "copy_fence"
              /\ UNCHANGED ret
         ELSE CopyFail(<<Ev("copy: submit failed")>> \o CopyCleanup)
    /\ UNCHANGED <<Inputs, DataVars, fb_id, live, uninit, result, queue_flags, exit_code>>

\* Mutant: a failed fence wait is reported and the routine goes on.
CopyFenceWait_ErrorIgnored ==
    /\ pc = "copy_fence"
    /\ \E ok \in BOOLEAN :
         /\ log' = log \o <<IF ok THEN Ev("fence signalled")
                            ELSE Ev("copy: fence wait failed")>> \o CopyCleanup
         /\ ret' = SetRet("copy", 0)
         /\ pc' = "amdgpu_dst_cpu_map"
    /\ UNCHANGED <<Inputs, DataVars, fb_id, live, uninit, result, queue_flags, exit_code>>

\* amdgpu_cs_query_fence_status with AMDGPU_TIMEOUT_INFINITE
CopyFenceWait ==
    /\ pc = "copy_fence"
    /\ \E ok \in BOOLEAN :
         IF ok
         THEN /\ log' = log \o <<Ev("fence signalled")>> \o CopyCleanup
              /\ ret' = SetRet("copy", 0)
              /\ pc' = "amdgpu_dst_cpu_map"
         ELSE CopyFail(<<Ev("copy: fence wait failed")>> \o CopyCleanup)
    /\ UNCHANGED <<Inputs, DataVars, fb_id, live, uninit, result, queue_flags, exit_code>>

----------------------------------------------------------------------------
(* capture_framebuffer_amdgpu, continued: readback (1093-1153) *)

\* amdgpu_bo_cpu_map(dst_bo, &dst_cpu)
AmdgpuDstCpuMap ==
    /\ pc = "amdgpu_dst_cpu_map"
    /\ \E ok \in BOOLEAN :
         IF ok
         THEN /\ log' = log \o <<Acq("dst_cpu")>>
              /\ pc' = "amdgpu_rgb_malloc"
              /\ UNCHANGED ret
         ELSE AmdgpuReturn(<<Ev("amdgpu: destination map failed")>>
                           \o AmdgpuUnwindDstVaMap, -1)
    /\ UNCHANGED <<Inputs, DataVars, fb_id, live, uninit, result, queue_flags, exit_code>>

\* malloc(width * height * 3), then convert_to_rgb24(dst_cpu, ...)
AmdgpuAllocRgb ==
    /\ pc = "amdgpu_rgb_malloc"
    /\ \E ok \in BOOLEAN :
         IF ok
         THEN /\ log' = log \o <<Acq("amdgpu.rgb_data"),
                                 Convert("dst_cpu", pixel_format)>>
              /\ pc' = "amdgpu_write"
              /\ UNCHANGED ret
         ELSE AmdgpuReturn(<<Ev("amdgpu: rgb malloc failed")>>
                           \o AmdgpuUnwindDstCpu, -1)
    /\ UNCHANGED <<Inputs, DataVars, fb_id, live, uninit, result, queue_flags, exit_code>>

\* write_ppm, whose result only decides a message; cleanup; return 0
AmdgpuWrite ==
    /\ pc = "amdgpu_write"
    /\ \E opened \in BOOLEAN :
         AmdgpuReturn(write_ppm(opened) \o <<Rel("amdgpu.rgb_data")>>
                      \o AmdgpuUnwindDstCpu, 0)
    /\ UNCHANGED <<Inputs, DataVars, fb_id, live, uninit, result, queue_flags, exit_code>>

----------------------------------------------------------------------------
(* capture_framebuffer, src/kms-screenshot.c:1156-1398 *)

DumbReturn(evs, v) ==
    /\ log' = log \o evs
    /\ ret' = SetRet("dumb", v)
    /\ pc' = "main_exit"

\* DRM_IOCTL_MODE_DESTROY_DUMB; drmModeFreeFB2(fb2);
DumbUnwindBuffer == <<Rel("dumb_buffer"), Rel("dumb.fb2")>>
\* munmap(linear_map, ...); ...
DumbUnwindMap == <<Rel("linear_map")>> \o DumbUnwindBuffer

\* drmGetVersion at 1160: an amdgpu device is handed to capture_framebuffer_amdgpu
DumbGetVersion ==
    /\ pc = "dumb_version"
    /\ IF driver # "NULL" /\ driver = "amdgpu"
       THEN /\ log' = log \o <<Acq("dumb.version"), Rel("dumb.version"),
                               Ev("enter:capture_framebuffer_amdgpu")>>
            /\ pc' = "amdgpu_getfb2"
       ELSE /\ log' = log \o (IF driver # "NULL"
                              THEN <<Acq("dumb.version"), Rel("dumb.version")>>
                              ELSE <<>>)
                          \o <<Ev("dumb-buffer shadow strategy")>>
            /\ pc' = "dumb_getfb2"
    /\ UNCHANGED <<Inputs, DataVars, fb_id, live, uninit, result, ret, queue_flags, exit_code>>

\* Mutant: metadata from the legacy query is accepted for a capture.
DumbGetFB2_LegacyAccepted ==
    /\ pc = "dumb_getfb2"
    /\ \E ok \in BOOLEAN, legacy \in BOOLEAN :
         IF ok \/ legacy
         THEN /\ log' = log \o (IF ok THEN <<Acq("dumb.fb2")>>
                                 ELSE <<Acq("dumb.fb"),
                                        Ev("dumb: legacy FB has no pixel format")>>)
              /\ pc' = "dumb_create"
              /\ UNCHANGED ret
         ELSE DumbReturn(<<Ev("dumb: no framebuffer info")>>, -1)
    /\ UNCHANGED <<Inputs, DataVars, fb_id, live, uninit, result, queue_flags, exit_code>>

\* drmModeGetFB2; when it fails drmModeGetFB is tried, and both of its
\* outcomes return -1
DumbGetFB2 ==
    /\ pc = "dumb_getfb2"
    /\ \E ok \in BOOLEAN, legacy \in BOOLEAN :
         IF ok
         THEN /\ log' = log \o <<Acq("dumb.fb2")>>
              /\ pc' = "dumb_create"
              /\ UNCHANGED ret
         ELSE IF legacy
              THEN DumbReturn(<<Acq("dumb.fb"), Rel("dumb.fb"),
                                Ev("dumb: legacy FB has no pixel format")>>, -1)
              ELSE DumbReturn(<<Ev("dumb: no framebuffer info")>>, -1)
    /\ UNCHANGED <<Inputs, DataVars, fb_id, live, uninit, result, queue_flags, exit_code>>

\* DRM_IOCTL_MODE_CREATE_DUMB
DumbCreate ==
    /\ pc = "dumb_create"
    /\ \E ok \in BOOLEAN :
         IF ok
         THEN /\ log' = log \o <<Acq("dumb_buffer")>>
              /\ pc' = "dumb_map_ioctl"
              /\ UNCHANGED ret
         ELSE DumbReturn(<<Ev("dumb: create failed"), Rel("dumb.fb2")>>, -1)
    /\ UNCHANGED <<Inputs, DataVars, fb_id, live, uninit, result, queue_flags, exit_code>>

\* DRM_IOCTL_MODE_MAP_DUMB
DumbMapIoctl ==
    /\ pc = "dumb_map_ioctl"
    /\ \E ok \in BOOLEAN :
         IF ok
         THEN /\ pc' = "dumb_mmap"
              /\ UNCHANGED <<log, ret>>
         ELSE DumbReturn(<<Ev("dumb: map offset failed")>> \o DumbUnwindBuffer, -1)
    /\ UNCHANGED <<Inputs, DataVars, fb_id, live, uninit, result, queue_flags, exit_code>>

\* mmap of the dumb buffer
DumbMmap ==
    /\ pc = "dumb_mmap"
    /\ \E ok \in BOOLEAN :
         IF ok
         THEN /\ log' = log \o <<Acq("linear_map")>>
              /\ pc' = "dumb_export_src"
              /\ UNCHANGED ret
         ELSE DumbReturn(<<Ev("dumb: mmap failed")>> \o DumbUnwindBuffer, -1)
    /\ UNCHANGED <<Inputs, DataVars, fb_id, live, uninit, result, queue_flags, exit_code>>

\* the branch taken when the && at 1264-1267 is false: copy_success stays 0
DumbExportFailed ==
    <<Ev("dumb: export failed"), Ev("dumb: copy failed")>> \o DumbUnwindMap

\* drmPrimeHandleToFD(drm_fd, fb2->handles[0], O_CLOEXEC, &src_prime_fd)
DumbExportSrc ==
    /\ pc = "dumb_export_src"
    /\ \E ok \in BOOLEAN :
         IF ok
         THEN /\ log' = log \o <<Acq("src_prime_fd")>>
              /\ pc' = "dumb_export_dst"
              /\ UNCHANGED ret
         ELSE DumbReturn(DumbExportFailed, -1)
    /\ UNCHANGED <<Inputs, DataVars, fb_id, live, uninit, result, queue_flags, exit_code>>

\* && drmPrimeHandleToFD(drm_fd, create_req.handle, O_CLOEXEC, &dst_prime_fd)
DumbExportDst ==
    /\ pc = "dumb_export_dst"
    /\ \E ok \in BOOLEAN :
         IF ok
         THEN /\ log' = log \o <<Acq("dst_prime_fd")>>
              /\ pc' = "dumb_src_mmap"
              /\ UNCHANGED ret
         ELSE DumbReturn(DumbExportFailed, -1)
    /\ UNCHANGED <<Inputs, DataVars, fb_id, live, uninit, result, queue_flags, exit_code>>

\* the row loop at 1287-1313: every source format is read as 64-bit
\* ABGR16161616 pixels and packed to ARGB8888
ShadowCopy == [k |-> "shadow copy", r |-> "src_map", a |-> "ABGR16161616->ARGB8888"]

\* mmap of the source through src_prime_fd: direct copy when it maps, the
\* gradient test pattern when it does not; then both FDs are closed
DumbSrcMmap ==
    /\ pc = "dumb_src_mmap"
    /\ \E ok \in BOOLEAN :
         IF ok
         THEN log' = log \o <<Acq("src_map"), ShadowCopy, Rel("src_map"),
                              Rel("src_prime_fd"), Rel("dst_prime_fd")>>
         ELSE log' = log \o <<Ev("dumb: source not mappable"), Ev("test pattern"),
                              Rel("src_prime_fd"), Rel("dst_prime_fd")>>
    /\ pc' = "dumb_rgb_malloc"
    /\ UNCHANGED <<Inputs, DataVars, fb_id, live, uninit, result, ret, queue_flags, exit_code>>

\* malloc(width * height * 3), then convert_to_rgb24(linear_map, ..., ARGB8888, ...)
DumbAllocRgb ==
    /\ pc = "dumb_rgb_malloc"
    /\ \E ok \in BOOLEAN :
         IF ok
         THEN /\ log' = log \o <<Acq("dumb.rgb_data"), Convert("linear_map", "ARGB8888")>>
              /\ pc' = "dumb_write"
              /\ UNCHANGED ret
         ELSE DumbReturn(<<Ev("dumb: rgb malloc failed")>> \o DumbUnwindMap, -1)
    /\ UNCHANGED <<Inputs, DataVars, fb_id, live, uninit, result, queue_flags, exit_code>>

\* write_ppm, whose result only decides a message; cleanup; return 0
DumbWrite ==
    /\ pc = "dumb_write"
    /\ \E opened \in BOOLEAN :
         DumbReturn(write_ppm(opened) \o <<Rel("dumb.rgb_data")>> \o DumbUnwindMap, 0)
    /\ UNCHANGED <<Inputs, DataVars, fb_id, live, uninit, result, queue_flags, exit_code>>

----------------------------------------------------------------------------
(* The program *)

Next ==
    \/ MainOpen \/ MainList \/ MainFind \/ MainGetVersion \/ MainExit
    \/ OrchGetFB2 \/ OrchCheckModifier \/ OrchAfterInit \/ OrchAfterDeswizzle
    \/ InitInstance \/ InitPhysicalDevice \/ InitQueueFamily \/ InitDevice
    \/ InitCommandPool
    \/ VkGetFB2 \/ VkCheckFormat \/ VkExportDmabuf
    \/ PipeShaderModule \/ PipeDescriptorSetLayout \/ PipeLayout
    \/ PipeComputePipeline \/ PipeDescriptorPool
    \/ VkCreateSrcImage \/ VkImportMemory \/ VkBindSrcMemory
    \/ VkCreateIntermediateImage \/ VkIntermediateMemoryType
    \/ VkAllocIntermediateMemory \/ VkBindIntermediateMemory
    \/ VkCreateDstImage \/ VkDstMemoryType \/ VkAllocDstMemory \/ VkBindDstMemory
    \/ VkAllocCommandBuffer \/ VkSubmitCopy \/ VkWaitCopy
    \/ TmAllocDescriptorSet \/ TmCreateInputView \/ TmCreateOutputView
    \/ TmAllocCommandBuffer \/ TmSubmit \/ TmWait
    \/ VkMapResult \/ VkAllocRgb \/ VkWrite \/ VkCleanup
    \/ AmdgpuGetFB2 \/ AmdgpuDeviceInit \/ AmdgpuContextCreate
    \/ AmdgpuImportFlink \/ AmdgpuExportPrime \/ AmdgpuImportPrime
    \/ AmdgpuQueryInfo \/ AmdgpuSrcVaAlloc \/ AmdgpuSrcVaMap
    \/ AmdgpuDstAlloc \/ AmdgpuDstVaAlloc \/ AmdgpuDstVaMap
    \/ CopyIbAlloc \/ CopyIbCpuMap \/ CopyIbVaAlloc \/ CopyIbVaMap
    \/ CopySubmit \/ CopyFenceWait
    \/ AmdgpuDstCpuMap \/ AmdgpuAllocRgb \/ AmdgpuWrite
    \/ DumbGetVersion \/ DumbGetFB2 \/ DumbCreate \/ DumbMapIoctl \/ DumbMmap
    \/ DumbExportSrc \/ DumbExportDst \/ DumbSrcMmap \/ DumbAllocRgb \/ DumbWrite

Spec == Init /\ [][Next]_vars

----------------------------------------------------------------------------
(* find_primary_framebuffer, src/kms-screenshot.c:1444-1477, followed      *)
(* value by value                                                          *)

\* Most planes a device reports in the model.
MaxPlanes == 3

\* Numbers of 32 bits and more are kept as <<high, low>>, low being the 16
\* low bits.  The exact product of two numbers up to 65536:
Product(a, b) ==
    LET a1 == a \div 256   a0 == a % 256
        b1 == b \div 256   b0 == b % 256
        l  == (a1 * b0 + a0 * b1) * 256 + a0 * b0
    IN <<a1 * b1 + l \div 65536, l % 65536>>

Less(x, y) == x[1] < y[1] \/ (x[1] = y[1] /\ x[2] < y[2])

\* uint32_t size = fb2->width * fb2->height: the product modulo 2^32
U32Mul(a, b) == LET p == Product(a, b) IN <<p[1] % 65536, p[2]>>

\* What drmModeGetPlane and drmModeGetFB2 answer for one plane: plane is
\* FALSE when drmModeGetPlane returns NULL, fb2 is FALSE when drmModeGetFB2
\* returns NULL.  The kernel refuses framebuffers of width or height 0.
PlaneAnswers ==
    { [plane |-> FALSE, fb_id |-> 0, fb2 |-> FALSE, width |-> 1, height |-> 1],
      [plane |-> TRUE, fb_id |-> 0, fb2 |-> FALSE, width |-> 1, height |-> 1] }
    \cup { [plane |-> TRUE, fb_id |-> f, fb2 |-> FALSE, width |-> 1, height |-> 1] :
             f \in {40, 41} }
    \cup { [plane |-> TRUE, fb_id |-> 40, fb2 |-> TRUE, width |-> d[1], height |-> d[2]] :
             d \in {<<2, 1>>, <<65536, 65536>>} }
    \cup { [plane |-> TRUE, fb_id |-> 41, fb2 |-> TRUE, width |-> d[1], height |-> d[2]] :
             d \in {<<1, 2>>, <<2, 2>>} }
    \cup { [plane |-> TRUE, fb_id |-> 42, fb2 |-> TRUE, width |-> 1, height |-> 1] }

PlaneLists == UNION {[1..n -> PlaneAnswers] : n \in 0..MaxPlanes}

\* Mutant: a framebuffer of equal size replaces the one found before.
LargerThan_OrEqual(size, max_size) == ~Less(size, max_size)

\* if (size > max_size)
LargerThan(size, max_size) == Less(max_size, size)

\* the loop over plane_res->planes from index i on, with the locals
\* best_fb_id and max_size
RECURSIVE FindLoop(_, _, _, _)
FindLoop(ps, i, best_fb_id, max_size) ==
    IF i > Len(ps) THEN best_fb_id
    ELSE LET p == ps[i]
             size == U32Mul(p.width, p.height)
         IN IF ~p.plane \/ p.fb_id = 0 \/ ~p.fb2
            THEN FindLoop(ps, i + 1, best_fb_id, max_size)
            ELSE IF LargerThan(size, max_size)
                 THEN FindLoop(ps, i + 1, p.fb_id, size)
                 ELSE FindLoop(ps, i + 1, best_fb_id, max_size)

\* plane_res is FALSE when drmModeGetPlaneResources returns NULL
find_primary_framebuffer(plane_res, ps) ==
    IF ~plane_res THEN -1
    ELSE LET best_fb_id == FindLoop(ps, 1, 0, <<0, 0>>)
         IN IF best_fb_id > 0 THEN best_fb_id ELSE -1

\* The capture run's variables while only the data routines are followed.
CaptureIdle ==
    /\ log = <<>> /\ driver = "NULL" /\ modifier = DRM_FORMAT_MOD_LINEAR
    /\ pixel_format = "XRGB8888" /\ list_only = FALSE /\ fb_id = 0
    /\ live = {} /\ uninit = {} /\ result = "VK_SUCCESS" /\ ret = <<>>
    /\ queue_flags = {} /\ exit_code = -1

CaptureVars == <<log, Inputs, fb_id, live, uninit, result, ret, queue_flags,
                 exit_code>>

DataInitFind ==
    /\ pc = "data_find"
    /\ CaptureIdle
    /\ planes \in { ps \in PlaneLists :
                       \A i, j \in DOMAIN ps :
                           (ps[i].fb_id = ps[j].fb_id /\ ps[i].fb2 /\ ps[j].fb2)
                               => ps[i] = ps[j] }
    /\ found_fb = 0
    /\ fb = NoFramebuffer /\ dst_cpu = <<>> /\ rgb_data = <<>> /\ file = <<>>
    /\ create_req = NoDumbBuffer /\ linear_map = <<>>
    /\ ParamIdle

DataFind ==
    /\ pc = "data_find"
    /\ \E plane_res \in BOOLEAN :
         /\ found_fb' = find_primary_framebuffer(plane_res, planes)
         /\ pc' = IF plane_res THEN "data_found" ELSE "data_no_planes"
    /\ UNCHANGED <<CaptureVars, planes, fb, dst_cpu, rgb_data, file, create_req,
                   linear_map,
                   ParamVars>>

----------------------------------------------------------------------------
(* The bytes of a capture through the DMA path, src/kms-screenshot.c:       *)
(* amdgpu_copy_buffer (793-899), convert_to_rgb24 (678-765) and write_ppm  *)
(* (662-675) as capture_framebuffer_amdgpu applies them (1074-1137).       *)
(* A buffer is a sequence of bytes; the byte at offset o is buffer[o + 1].  *)

\* Largest width, height and row padding (in pixels) of the framebuffers
\* that are enumerated.
MaxWidth == 2
MaxHeight == 2
MaxPad == 1

\* Bytes that make up the pixels of the enumerated framebuffers.
ByteSamples == {0, 108, 180, 255}

\* Cells after the end of the RGB buffer that are watched for stray writes.
GuardBytes == 3

\* A byte that was never written.
Indeterminate == -1

\* sizeof of the element type each case of convert_to_rgb24 reads
\* (uint32_t, uint16_t, uint64_t); the default case reads nothing.
ElementSize(format) ==
    CASE format \in {"XRGB8888", "ARGB8888", "XBGR8888", "ABGR8888"} -> 4
      [] format = "RGB565" -> 2
      [] format = "ABGR16161616" -> 8
      [] OTHER -> 1

\* Memory of a framebuffer of w x h pixels and pad more elements per row:
\* element 0 holds the bytes base, element n the same bytes plus 37 n.
FbMemory(format, w, h, pad, base) ==
    [o \in 1..((w + pad) * ElementSize(format) * h) |->
        LET n == (o - 1) \div ElementSize(format)
            k == (o - 1) % ElementSize(format)
        IN (base[k + 1] + 37 * n) % 256]

\* The 8 x 8 XRGB8888 raster of the linear SDR scenario: pixel (x, y) is
\* stored as the bytes B = 0, G = 36 x, R = 36 y, X = 0.
ScenarioMemory ==
    [o \in 1..256 |->
        LET p == (o - 1) \div 4
            k == (o - 1) % 4
        IN CASE k = 1 -> 36 * (p % 8)
             [] k = 2 -> 36 * (p \div 8)
             [] OTHER -> 0]

Framebuffers ==
    { [width |-> w, height |-> h, pitch |-> (w + pad) * ElementSize(f),
       pixel_format |-> f, mem |-> FbMemory(f, w, h, pad, base)] :
         w \in 1..MaxWidth, h \in 1..MaxHeight, pad \in 0..MaxPad,
         f \in {"XRGB8888", "ARGB8888", "XBGR8888", "ABGR8888"},
         base \in [1..4 -> ByteSamples] }
    \cup
    { [width |-> w, height |-> h, pitch |-> (w + pad) * ElementSize(f),
       pixel_format |-> f, mem |-> FbMemory(f, w, h, pad, base)] :
         w \in 1..MaxWidth, h \in 1..MaxHeight, pad \in 0..MaxPad,
         f \in {"RGB565", "NV12", "XRGB2101010"},
         base \in [1..2 -> ByteSamples] }
    \cup
    { [width |-> w, height |-> h, pitch |-> (w + pad) * 8,
       pixel_format |-> "ABGR16161616",
       mem |-> FbMemory("ABGR16161616", w, h, pad,
                        <<c[1], c[2], c[2], c[3], c[3], c[1], c[4], c[4]>>)] :
         w \in 1..MaxWidth, h \in 1..MaxHeight, pad \in 0..MaxPad,
         c \in [1..4 -> ByteSamples] }
    \cup
    { [width |-> 8, height |-> 8, pitch |-> 32, pixel_format |-> "XRGB8888",
       mem |-> ScenarioMemory] }

\* SDMA_PKT_COPY_LINEAR with count field ib[1] = size - 1, i.e. size bytes
\* from src_va to dst_va
LinearCopy(src, dst, size) ==
    [o \in DOMAIN dst |-> IF o <= size /\ o <= Len(src) THEN src[o] ELSE dst[o]]

\* uint32_t pixel = src_row[x], kept as <<bits 31..16, bits 15..0>>
Load32(src, off) ==
    <<src[off + 4] * 256 + src[off + 3], src[off + 2] * 256 + src[off + 1]>>

\* uint16_t pixel = src_row[x]
Load16(src, off) == src[off + 2] * 256 + src[off + 1]

\* uint64_t pixel = src_row[x], kept as <<bits 63..48, 47..32, 31..16, 15..0>>
Load64(src, off) ==
    <<Load16(src, off + 6), Load16(src, off + 4), Load16(src, off + 2),
      Load16(src, off)>>

\* Mutant: the channels are taken in the order of the ABGR case.
Rgb_XRGB8888_AsXBGR(pixel) ==
    <<pixel[2] % 256, pixel[2] \div 256, pixel[1] % 256>>

\* case DRM_FORMAT_XRGB8888 / ARGB8888:
\* (pixel >> 16) & 0xFF, (pixel >> 8) & 0xFF, pixel & 0xFF
Rgb_XRGB8888(pixel) ==
    <<pixel[1] % 256, pixel[2] \div 256, pixel[2] % 256>>

\* case DRM_FORMAT_XBGR8888 / ABGR8888:
\* pixel & 0xFF, (pixel >> 8) & 0xFF, (pixel >> 16) & 0xFF
Rgb_XBGR8888(pixel) ==
    <<pixel[2] % 256, pixel[2] \div 256, pixel[1] % 256>>

\* Mutant: the five most significant bits are taken as blue (BGR565).
Rgb_RGB565_BlueHigh(pixel) ==
    <<(pixel % 32) * 8, ((pixel \div 32) % 64) * 4, ((pixel \div 2048) % 32) * 8>>

\* case DRM_FORMAT_RGB565:
\* ((pixel >> 11) & 0x1F) << 3, ((pixel >> 5) & 0x3F) << 2, (pixel & 0x1F) << 3
Rgb_RGB565(pixel) ==
    <<((pixel \div 2048) % 32) * 8, ((pixel \div 32) % 64) * 4, (pixel % 32) * 8>>

\* Mutant: the low byte of each channel is kept instead of the high byte.
Rgb_ABGR16161616_LowByte(pixel) ==
    <<pixel[4] % 256, pixel[3] % 256, pixel[2] % 256>>

\* case DRM_FORMAT_ABGR16161616: r = pixel & 0xFFFF, g = (pixel >> 16) & 0xFFFF,
\* b = (pixel >> 32) & 0xFFFF; r >> 8, g >> 8, b >> 8
Rgb_ABGR16161616(pixel) ==
    <<pixel[4] \div 256, pixel[3] \div 256, pixel[2] \div 256>>

\* the three bytes stored for the element at byte offset off of src
PixelRgb(format, src, off) ==
    CASE format \in {"XRGB8888", "ARGB8888"} -> Rgb_XRGB8888(Load32(src, off))
      [] format \in {"XBGR8888", "ABGR8888"} -> Rgb_XBGR8888(Load32(src, off))
      [] format = "RGB565" -> Rgb_RGB565(Load16(src, off))
      [] format = "ABGR16161616" -> Rgb_ABGR16161616(Load64(src, off))

\* Mutant: rows are taken to follow each other without padding.
SrcRow_Packed(y, width, format, stride) == y * width * ElementSize(format)

\* src_row = (T *)(src + y * stride): the byte offset of row y
SrcRow(y, width, format, stride) == y * stride

\* Mutant: the rows of the raster are laid out four bytes per pixel.
DstRow_FourBytes(y, width) == y * width * 4

\* dst_row = dst + y * width * 3
DstRow(y, width) == y * width * 3

\* the inner loop over x, from x on, for row y
RECURSIVE ConvertRow(_, _, _, _, _, _, _)
ConvertRow(src, dst, width, format, stride, y, x) ==
    IF x >= width THEN dst
    ELSE LET off == SrcRow(y, width, format, stride) + x * ElementSize(format)
             rgb == PixelRgb(format, src, off)
             at  == DstRow(y, width) + x * 3
             stored == [dst EXCEPT ![at + 1] = rgb[1], ![at + 2] = rgb[2],
                                   ![at + 3] = rgb[3]]
         IN ConvertRow(src, stored, width, format, stride, y, x + 1)

\* the outer loop over y, from y on
RECURSIVE ConvertRows(_, _, _, _, _, _, _)
ConvertRows(src, dst, width, height, format, stride, y) ==
    IF y >= height THEN dst
    ELSE ConvertRows(src, ConvertRow(src, dst, width, format, stride, y, 0),
                     width, height, format, stride, y + 1)

Recognized(format) ==
    format \in {"XRGB8888", "ARGB8888", "XBGR8888", "ABGR8888", "RGB565",
                "ABGR16161616"}

\* Mutant: the default case leaves the buffer as malloc returned it.
Unsupported_NoMemset(dst, width, height) == dst

\* default: memset(dst, 0, width * height * 3)
Unsupported(dst, width, height) ==
    [o \in DOMAIN dst |-> IF o <= width * height * 3 THEN 0 ELSE dst[o]]

\* convert_to_rgb24(src, dst, width, height, format, stride): dst afterwards
convert_to_rgb24(src, dst, width, height, format, stride) ==
    IF Recognized(format)
    THEN ConvertRows(src, dst, width, height, format, stride, 0)
    ELSE Unsupported(dst, width, height)

\* The offsets of src that the loops of convert_to_rgb24 load from.
SourceReads(width, height, format, stride) ==
    IF Recognized(format)
    THEN { SrcRow(y, width, format, stride) + x * ElementSize(format) + k :
             y \in 0..(height - 1), x \in 0..(width - 1),
             k \in 0..(ElementSize(format) - 1) }
    ELSE {}

\* "%u": the decimal digits of n as character codes
RECURSIVE Decimal(_)
Decimal(n) ==
    IF n < 10 THEN <<48 + n>> ELSE Decimal(n \div 10) \o <<48 + (n % 10)>>

\* fprintf(fp, "P6\n%u %u\n255\n", width, height)
PpmHeader(width, height) ==
    <<80, 54, 10>> \o Decimal(width) \o <<32>> \o Decimal(height)
    \o <<10, 50, 53, 53, 10>>

\* fwrite(rgb_data, 3, width * height, fp) of which items items reach the file
PpmRaster(rgb, items) == SubSeq(rgb, 1, 3 * items)

\* The framebuffers the byte-level runs start from.
DataInitCapture ==
    /\ pc = "data_copy"
    /\ CaptureIdle
    /\ planes = <<>> /\ found_fb = 0
    /\ fb \in Framebuffers
    /\ dst_cpu = <<>> /\ rgb_data = <<>> /\ file = <<>>
    /\ create_req = NoDumbBuffer /\ linear_map = <<>>
    /\ ParamIdle

\* dst_bo of buffer_size = pitches[0] * height bytes, filled by
\* amdgpu_copy_buffer(adev, ctx, src_va, dst_va, buffer_size) and mapped
DataCopy ==
    /\ pc = "data_copy"
    /\ LET buffer_size == fb.pitch * fb.height
       IN dst_cpu' = LinearCopy(fb.mem, [o \in 1..buffer_size |-> Indeterminate],
                                buffer_size)
    /\ pc' = "data_convert"
    /\ UNCHANGED <<CaptureVars, planes, found_fb, fb, rgb_data, file, create_req,
                   linear_map,
                   ParamVars>>

\* rgb_data = malloc(width * height * 3);
\* convert_to_rgb24(dst_cpu, rgb_data, width, height, pixel_format, pitches[0])
DataConvert ==
    /\ pc = "data_convert"
    /\ rgb_data' = convert_to_rgb24(
                       dst_cpu,
                       [o \in 1..(fb.width * fb.height * 3 + GuardBytes) |-> Indeterminate],
                       fb.width, fb.height, fb.pixel_format, fb.pitch)
    /\ log' = log \o (IF Recognized(fb.pixel_format) THEN <<>>
                      ELSE <<Ev("Unsupported pixel format")>>)
    /\ pc' = "data_write"
    /\ UNCHANGED <<driver, modifier, pixel_format, list_only, fb_id, live, uninit,
                   result, ret, queue_flags, exit_code, planes, found_fb, fb,
                   dst_cpu, file, create_req, linear_map,
                   ParamVars>>

\* write_ppm(output_path, width, height, rgb_data): fopen may fail; the
\* results of fprintf, fwrite and fclose are not looked at
DataWrite ==
    /\ pc = "data_write"
    /\ \E opened \in BOOLEAN, items \in 0..(fb.width * fb.height) :
         /\ items < fb.width * fb.height => opened
         /\ IF opened
            THEN /\ file' = PpmHeader(fb.width, fb.height) \o PpmRaster(rgb_data, items)
                 /\ log' = log \o write_ppm(TRUE)
                 /\ ret' = SetRet("write_ppm", 0)
            ELSE /\ file' = <<>>
                 /\ log' = log \o write_ppm(FALSE)
                 /\ ret' = SetRet("write_ppm", -1)
    /\ pc' = "data_done"
    /\ UNCHANGED <<driver, modifier, pixel_format, list_only, fb_id, live, uninit,
                   result, queue_flags, exit_code, planes, found_fb, fb, dst_cpu,
                   rgb_data, create_req, linear_map,
                   ParamVars>>

\* One RGB565 pixel: a framebuffer of 1 x 1 holding the uint16_t p in the
\* byte order of the machine, least significant byte first.
PixelInit ==
    /\ pc = "data_copy"
    /\ CaptureIdle
    /\ planes = <<>> /\ found_fb = 0
    /\ \E p \in 0..(2^16 - 1) :
         fb = [width |-> 1, height |-> 1, pitch |-> 2, pixel_format |-> "RGB565",
               mem |-> <<p % 256, p \div 256>>]
    /\ dst_cpu = <<>> /\ rgb_data = <<>> /\ file = <<>>
    /\ create_req = NoDumbBuffer /\ linear_map = <<>>
    /\ ParamIdle

PixelNext == DataCopy \/ DataConvert

PixelSpec == PixelInit /\ [][PixelNext]_vars

DataInit == DataInitFind \/ DataInitCapture

DataNext == DataFind \/ DataCopy \/ DataConvert \/ DataWrite

DataSpec == DataInit /\ [][DataNext]_vars

----------------------------------------------------------------------------
(* The bytes of a capture through the dumb-buffer path, capture_framebuffer *)
(* from the mmap of the source on, src/kms-screenshot.c:1277-1397.          *)

\* DRM_IOCTL_MODE_CREATE_DUMB for width x height at bpp = 32: the kernel
\* chooses the pitch, at least 4 * width, and size = pitch * height.
DumbBuffers(width, height) ==
    { [width |-> width, height |-> height, pitch |-> (width + pad) * 4,
       size |-> (width + pad) * 4 * height] : pad \in 0..MaxPad }

\* Values a load may yield at an offset past the src_size bytes of the
\* source, when the load does not fault.
OutsideBytes == {0, 255}

\* ((uint8_t *)src_map)[o]
SrcMapByte(src, o, outside) == IF o < Len(src) THEN src[o + 1] ELSE outside

\* uint64_t src_pixel = src_row[x], as <<bits 63..48, 47..32, 31..16, 15..0>>
ShadowLoad64(src, off, outside) ==
    [n \in 1..4 |->
        SrcMapByte(src, off + 2 * (4 - n) + 1, outside) * 256
            + SrcMapByte(src, off + 2 * (4 - n), outside)]

\* a, b, g, r = the four 16-bit fields; dst_pixel = ((a >> 8) << 24) |
\* ((r >> 8) << 16) | ((g >> 8) << 8) | (b >> 8), as the four bytes stored
ShadowPixel(src_pixel) ==
    <<src_pixel[2] \div 256, src_pixel[3] \div 256, src_pixel[4] \div 256,
      src_pixel[1] \div 256>>

\* dst_row[x] = v for the uint32_t at byte offset at of the map
Store32(map, at, v) ==
    [map EXCEPT ![at + 1] = v[1], ![at + 2] = v[2], ![at + 3] = v[3],
                ![at + 4] = v[4]]

\* the loop over x at 1295-1312, from x on, for row y
RECURSIVE ShadowCopyRow(_, _, _, _, _, _, _)
ShadowCopyRow(src, map, width, src_pitch, dst_pitch, outside, yx) ==
    IF yx[2] >= width THEN map
    ELSE LET src_pixel == ShadowLoad64(src, yx[1] * src_pitch + yx[2] * 8, outside)
             stored == Store32(map, yx[1] * dst_pitch + yx[2] * 4,
                               ShadowPixel(src_pixel))
         IN ShadowCopyRow(src, stored, width, src_pitch, dst_pitch, outside,
                          <<yx[1], yx[2] + 1>>)

\* the loop over y at 1287-1313, from y on
RECURSIVE ShadowCopyRows(_, _, _, _, _, _, _)
ShadowCopyRows(src, map, width, height, src_pitch, dst_pitch, outside_y) ==
    IF outside_y[2] >= height THEN map
    ELSE ShadowCopyRows(src,
                        ShadowCopyRow(src, map, width, src_pitch, dst_pitch,
                                      outside_y[1], <<outside_y[2], 0>>),
                        width, height, src_pitch, dst_pitch,
                        <<outside_y[1], outside_y[2] + 1>>)

\* The offsets of src_map the copy loads from.
ShadowReads(width, height, src_pitch) ==
    { y * src_pitch + x * 8 + k :
        y \in 0..(height - 1), x \in 0..(width - 1), k \in 0..7 }

\* Mutant: the gradient runs over 256 steps.
TestPixel_256(x, y, width, height) ==
    <<128, ((y * 256) \div height) % 256, ((x * 256) \div width) % 256, 255>>

\* r = (x * 255) / width, g = (y * 255) / height, b = 128, a = 255;
\* row[x] = (a << 24) | (r << 16) | (g << 8) | b, as the four bytes stored
TestPixel(x, y, width, height) ==
    <<128, ((y * 255) \div height) % 256, ((x * 255) \div width) % 256, 255>>

\* the loops at 1329-1346
TestPattern(map, width, height, pitch) ==
    [o \in DOMAIN map |->
        LET y == (o - 1) \div pitch
            x == ((o - 1) % pitch) \div 4
            k == (o - 1) % 4
        IN IF y < height /\ x < width
           THEN TestPixel(x, y, width, height)[k + 1]
           ELSE map[o]]

\* The framebuffers the runs of the dumb-buffer path start from.
ShadowFramebuffers ==
    { f \in Framebuffers : f.width <= MaxWidth /\ f.height <= MaxHeight }

\* capture_framebuffer after both drmPrimeHandleToFD calls succeeded
ShadowInit ==
    /\ pc = "shadow_src_mmap"
    /\ CaptureIdle
    /\ planes = <<>> /\ found_fb = 0
    /\ fb \in ShadowFramebuffers
    /\ create_req \in DumbBuffers(fb.width, fb.height)
    /\ linear_map = [o \in 1..create_req.size |-> Indeterminate]
    /\ dst_cpu = <<>> /\ rgb_data = <<>> /\ file = <<>>
    /\ ParamIdle

ShadowReturn(evs, v) ==
    /\ log' = log \o evs
    /\ ret' = SetRet("dumb", v)
    /\ pc' = "shadow_exit"

\* src_map = mmap(NULL, src_size, ...) with src_size = pitches[0] * height:
\* the copy loop when it maps, the test pattern when it does not.  A load
\* past src_size either faults or yields bytes that are not the source's.
ShadowSrcMmap ==
    /\ pc = "shadow_src_mmap"
    /\ \E ok \in BOOLEAN, fault \in BOOLEAN, outside \in OutsideBytes :
         LET src_size == fb.pitch * fb.height
             inside == ShadowReads(fb.width, fb.height, fb.pitch)
                           \subseteq 0..(src_size - 1)
         IN /\ (inside \/ ~ok) => (~fault /\ outside = 0)
            /\ fault => outside = 0
            /\ IF ~ok
               THEN /\ linear_map' = TestPattern(linear_map, create_req.width,
                                                 create_req.height, create_req.pitch)
                    /\ log' = log \o <<Ev("dumb: source not mappable"),
                                       Ev("test pattern"),
                                       Rel("src_prime_fd"), Rel("dst_prime_fd")>>
                    /\ pc' = "shadow_rgb_malloc"
               ELSE IF fault
               THEN /\ linear_map' = linear_map
                    /\ log' = log \o <<Acq("src_map"), Ev("signal")>>
                    /\ pc' = "shadow_signalled"
               ELSE /\ linear_map' = ShadowCopyRows(fb.mem, linear_map, fb.width,
                                                    fb.height, fb.pitch,
                                                    create_req.pitch, <<outside, 0>>)
                    /\ log' = log \o <<Acq("src_map"), ShadowCopy, Rel("src_map"),
                                       Rel("src_prime_fd"), Rel("dst_prime_fd")>>
                    /\ pc' = "shadow_rgb_malloc"
    /\ UNCHANGED <<Inputs, fb_id, live, uninit, result, ret, queue_flags, exit_code,
                   planes, found_fb, fb, dst_cpu, rgb_data, file, create_req,
                   ParamVars>>

\* rgb_data = malloc(create_req.width * create_req.height * 3);
\* convert_to_rgb24(linear_map, rgb_data, create_req.width, create_req.height,
\*                  DRM_FORMAT_ARGB8888, create_req.pitch)
ShadowConvert ==
    /\ pc = "shadow_rgb_malloc"
    /\ \E ok \in BOOLEAN :
         IF ok
         THEN /\ rgb_data' = convert_to_rgb24(
                                 linear_map,
                                 [o \in 1..(create_req.width * create_req.height * 3
                                            + GuardBytes) |-> Indeterminate],
                                 create_req.width, create_req.height, "ARGB8888",
                                 create_req.pitch)
              /\ log' = log \o <<Acq("dumb.rgb_data"), Convert("linear_map", "ARGB8888")>>
              /\ pc' = "shadow_write"
              /\ UNCHANGED ret
         ELSE /\ ShadowReturn(<<Ev("dumb: rgb malloc failed")>> \o DumbUnwindMap, -1)
              /\ UNCHANGED rgb_data
    /\ UNCHANGED <<Inputs, fb_id, live, uninit, result, queue_flags, exit_code,
                   planes, found_fb, fb, dst_cpu, file, create_req, linear_map,
                   ParamVars>>

\* write_ppm(output_path, create_req.width, create_req.height, rgb_data),
\* whose result only decides a message; cleanup; return 0
ShadowWrite ==
    /\ pc = "shadow_write"
    /\ \E opened \in BOOLEAN, items \in 0..(create_req.width * create_req.height) :
         /\ items < create_req.width * create_req.height => opened
         /\ file' = IF opened
                    THEN PpmHeader(create_req.width, create_req.height)
                             \o PpmRaster(rgb_data, items)
                    ELSE <<>>
         /\ log' = log \o write_ppm(opened) \o <<Rel("dumb.rgb_data")>>
                       \o DumbUnwindMap
         /\ ret' = ("dumb" :> 0) @@ SetRet("write_ppm", IF opened THEN 0 ELSE -1)
    /\ pc' = "shadow_exit"
    /\ UNCHANGED <<Inputs, fb_id, live, uninit, result, queue_flags, exit_code,
                   planes, found_fb, fb, dst_cpu, rgb_data, create_req, linear_map,
                   ParamVars>>

\* main: return result == 0 ? 0 : 1
ShadowExit ==
    /\ pc = "shadow_exit"
    /\ exit_code' = IF ret["dumb"] = 0 THEN 0 ELSE 1
    /\ log' = log \o <<Rel("drm_fd")>>
    /\ pc' = "exited"
    /\ UNCHANGED <<Inputs, fb_id, live, uninit, result, ret, queue_flags, DataVars>>

ShadowNext == ShadowSrcMmap \/ ShadowConvert \/ ShadowWrite \/ ShadowExit

ShadowSpec == ShadowInit /\ [][ShadowNext]_vars

----------------------------------------------------------------------------
(* main, src/kms-screenshot.c:2006-2056: the argument loop, character by    *)
(* character.  A string is the sequence of its characters; argv[n] below is *)
(* argv[n] of the program for n >= 1, and argc = Len(argv) + 1.             *)

OptList == <<"-", "-", "l", "i", "s", "t">>
OptDevice == <<"-", "-", "d", "e", "v", "i", "c", "e">>
OptOutput == <<"-", "-", "o", "u", "t", "p", "u", "t">>
OptFb == <<"-", "-", "f", "b">>
OptExposure == <<"-", "-", "e", "x", "p", "o", "s", "u", "r", "e">>
OptTonemap == <<"-", "-", "t", "o", "n", "e", "m", "a", "p">>
OptHelp == <<"-", "-", "h", "e", "l", "p">>

\* Largest number of arguments after the program name.
MaxArgs == 3

\* The words the enumerated command lines are made of: the options, one
\* word that is no option, and values.
ArgWords ==
    {OptList, OptDevice, OptOutput, OptFb, OptExposure, OptTonemap, OptHelp,
     <<"-", "-", "r", "a", "w">>,
     <<"4", "0">>, <<"0", "x", "2", "8">>, <<"a", "b", "c">>, <<"9">>, <<"7">>,
     <<"-", "1">>, <<"4", "2", "9", "4", "9", "6", "7", "2", "9", "8">>, <<"n", "a", "n">>, <<"0", ".", "5">>, <<"1", "e", "-", "5", "0">>}

ArgLists == UNION {[1..n -> ArgWords] : n \in 0..MaxArgs}

\* isspace
IsSpace(c) == c \in {" ", "\t", "\n"}

RECURSIVE SkipSpace(_)
SkipSpace(s) == IF s # <<>> /\ IsSpace(s[1]) THEN SkipSpace(Tail(s)) ELSE s

\* The value of c as a digit, 36 when it is none.
DigitValue(c) ==
    CASE c = "0" -> 0 [] c = "1" -> 1 [] c = "2" -> 2 [] c = "3" -> 3
      [] c = "4" -> 4 [] c = "5" -> 5 [] c = "6" -> 6 [] c = "7" -> 7
      [] c = "8" -> 8 [] c = "9" -> 9
      [] c \in {"a", "A"} -> 10 [] c \in {"b", "B"} -> 11
      [] c \in {"c", "C"} -> 12 [] c \in {"d", "D"} -> 13
      [] c \in {"e", "E"} -> 14 [] c \in {"f", "F"} -> 15
      [] OTHER -> 36

\* The number of leading characters of s that are digits of the base.
RECURSIVE DigitSpan(_, _)
DigitSpan(s, base) ==
    IF s # <<>> /\ DigitValue(s[1]) < base
    THEN 1 + DigitSpan(Tail(s), base)
    ELSE 0

\* An unsigned long is kept as <<bits 63..48, 47..32, 31..16, 15..0>>.
ULONG_MAX == <<65535, 65535, 65535, 65535>>

\* v * base + d, and whether it passed ULONG_MAX
MulAdd(v, base, d) ==
    LET t4 == v[4] * base + d
        t3 == v[3] * base + t4 \div 65536
        t2 == v[2] * base + t3 \div 65536
        t1 == v[1] * base + t2 \div 65536
    IN [value |-> <<t1 % 65536, t2 % 65536, t3 % 65536, t4 % 65536>>,
        overflow |-> t1 >= 65536]

RECURSIVE Accumulate(_, _, _, _)
Accumulate(s, n, base, acc) ==
    IF n = 0 THEN acc
    ELSE LET m == MulAdd(acc.value, base, DigitValue(s[1]))
         IN Accumulate(Tail(s), n - 1, base,
                       [value |-> m.value, overflow |-> acc.overflow \/ m.overflow])

\* -v modulo 2^64
Negate(v) == MulAdd([n \in 1..4 |-> 65535 - v[n]], 1, 1).value

\* strtoul(nptr, NULL, 0): white space, an optional sign, "0x" for base 16
\* or "0" for base 8, then the digits of the base; 0 when there are none,
\* ULONG_MAX on overflow, the negated value after "-".
strtoul(nptr) ==
    LET t == SkipSpace(nptr)
        negative == t # <<>> /\ t[1] = "-"
        u == IF t # <<>> /\ t[1] \in {"+", "-"} THEN Tail(t) ELSE t
        hex == Len(u) >= 3 /\ u[1] = "0" /\ u[2] \in {"x", "X"}
                   /\ DigitValue(u[3]) < 16
        base == IF hex THEN 16 ELSE IF u # <<>> /\ u[1] = "0" THEN 8 ELSE 10
        digits == IF hex THEN Tail(Tail(u)) ELSE u
        acc == Accumulate(digits, DigitSpan(digits, base), base,
                          [value |-> <<0, 0, 0, 0>>, overflow |-> FALSE])
    IN IF acc.overflow THEN ULONG_MAX
       ELSE IF negative THEN Negate(acc.value) ELSE acc.value

\* (uint32_t)v, as <<bits 31..16, bits 15..0>>
ToUint32(v) == <<v[3], v[4]>>

\* A float is kept by its class, its sign and, when finite and not zero,
\* the decimal mant * 10^exp with mant not divisible by 10.  The value is
\* not rounded to 24 bits.
FloatZero(negative) == [class |-> "zero", negative |-> negative, mant |-> 0, exp |-> 0]
FloatInf(negative) == [class |-> "inf", negative |-> negative, mant |-> 0, exp |-> 0]
FloatNaN == [class |-> "nan", negative |-> FALSE, mant |-> 0, exp |-> 0]

RECURSIVE NumDigits(_)
NumDigits(m) == IF m < 10 THEN 1 ELSE 1 + NumDigits(m \div 10)

RECURSIVE StripZeros(_, _)
StripZeros(m, e) == IF m % 10 = 0 THEN StripZeros(m \div 10, e + 1) ELSE <<m, e>>

\* The float nearest to sign * m * 10^e: infinite from 10^39 on (FLT_MAX is
\* 3.4e38), zero below 10^-46 (the least subnormal is 1.4e-45).
Float(negative, m, e) ==
    IF m = 0 THEN FloatZero(negative)
    ELSE LET n == StripZeros(m, e)
             magnitude == NumDigits(n[1]) + n[2]
         IN IF magnitude > 39 THEN FloatInf(negative)
            ELSE IF magnitude < -45 THEN FloatZero(negative)
            ELSE [class |-> "finite", negative |-> negative, mant |-> n[1],
                  exp |-> n[2]]

\* tolower, for the letters of "infinity" and "nan"
Lower(c) ==
    CASE c = "I" -> "i" [] c = "N" -> "n" [] c = "F" -> "f" [] c = "A" -> "a"
      [] OTHER -> c

HasPrefix(s, p) == Len(s) >= Len(p) /\ \A k \in 1..Len(p) : Lower(s[k]) = p[k]

RECURSIVE DropLeadingZeros(_)
DropLeadingZeros(s) ==
    IF s # <<>> /\ s[1] = "0" THEN DropLeadingZeros(Tail(s)) ELSE s

\* The number written by the first n characters of s in the base.
RECURSIVE NumberOf(_, _, _)
NumberOf(s, n, base) ==
    IF n = 0 THEN 0 ELSE NumberOf(s, n - 1, base) * base + DigitValue(s[n])

\* Significant digits of a decimal that are kept; the rest only scale.
SigDigits == 9

\* strtof(nptr, NULL): white space, an optional sign, then "inf", "nan", a
\* hexadecimal integer after "0x", or decimal digits with an optional
\* fraction and an optional exponent; 0 when nothing converts.
strtof(nptr) ==
    LET t == SkipSpace(nptr)
        negative == t # <<>> /\ t[1] = "-"
        u == IF t # <<>> /\ t[1] \in {"+", "-"} THEN Tail(t) ELSE t
        hex == Len(u) >= 3 /\ u[1] = "0" /\ u[2] \in {"x", "X"}
                   /\ DigitValue(u[3]) < 16
        int_len == DigitSpan(u, 10)
        after_int == SubSeq(u, int_len + 1, Len(u))
        has_point == after_int # <<>> /\ after_int[1] = "."
        fraction == IF has_point THEN Tail(after_int) ELSE <<>>
        frac_len == DigitSpan(fraction, 10)
        rest == IF has_point THEN SubSeq(fraction, frac_len + 1, Len(fraction))
                ELSE after_int
        exp_signed == Len(rest) >= 2 /\ rest[2] \in {"+", "-"}
        exp_digits == IF rest # <<>> /\ rest[1] \in {"e", "E"}
                      THEN (IF exp_signed THEN Tail(Tail(rest)) ELSE Tail(rest))
                      ELSE <<>>
        exp_len == DigitSpan(exp_digits, 10)
        exp_value == IF exp_len > 4 THEN 9999 ELSE NumberOf(exp_digits, exp_len, 10)
        exponent == IF exp_signed /\ rest[2] = "-" THEN 0 - exp_value ELSE exp_value
        significant == DropLeadingZeros(SubSeq(u, 1, int_len)
                                            \o SubSeq(fraction, 1, frac_len))
        kept == IF Len(significant) > SigDigits THEN SigDigits ELSE Len(significant)
    IN CASE HasPrefix(u, <<"i", "n", "f">>) -> FloatInf(negative)
         [] HasPrefix(u, <<"n", "a", "n">>) -> FloatNaN
         [] hex -> LET d == Tail(Tail(u))
                       n == DigitSpan(d, 16)
                   IN Float(negative, NumberOf(d, IF n > 7 THEN 7 ELSE n, 16),
                            IF n > 7 THEN 99 ELSE 0)
         [] OTHER ->
              IF int_len + frac_len = 0 THEN FloatZero(FALSE)
              ELSE Float(negative, NumberOf(significant, kept, 10),
                         exponent - frac_len + (Len(significant) - kept))

\* 1.0f and 0.0f
FloatOne == Float(FALSE, 1, 0)

\* f <= 0.0f: false for a NaN
LessOrEqualZero(f) ==
    f.class = "zero" \/ (f.class \in {"finite", "inf"} /\ f.negative)

argc == Len(argv) + 1

\* The runs of the argument loop start in main, before getuid.
ArgInit ==
    /\ pc = "main_getuid"
    /\ argv \in ArgLists
    /\ argi = 1
    /\ log = <<>> /\ driver = "NULL" /\ modifier = DRM_FORMAT_MOD_LINEAR
    /\ pixel_format = "XRGB8888" /\ live = {} /\ uninit = {}
    /\ result = "VK_SUCCESS" /\ ret = <<>> /\ queue_flags = {}
    /\ exit_code = -1
    /\ list_only = FALSE
    /\ fb_id = <<0, 0>>
    /\ DispatchIdle /\ PacketIdle
    /\ exposure = FloatOne
    /\ tonemap_mode = <<0, 2>>
    /\ push_constants = NoPushConstants
    /\ color = <<>>
    /\ planes = <<>> /\ found_fb = 0 /\ fb = NoFramebuffer /\ dst_cpu = <<>>
    /\ rgb_data = <<>> /\ file = <<>> /\ create_req = NoDumbBuffer
    /\ linear_map = <<>>

\* What the argument runs never change.
ArgFrame == <<driver, modifier, pixel_format, live, uninit, result, ret,
              queue_flags, planes, found_fb, fb, dst_cpu, rgb_data, file,
              create_req, linear_map, DispatchVars, PacketVars>>

\* return code from main, after the calls evs
ArgExit(evs, code) ==
    /\ log' = log \o evs
    /\ exit_code' = code
    /\ pc' = "exited"

PrintUsage == Ev("print_usage")

\* if (getuid() != 0) return 1; then the defaults at 2015-2020
MainGetuid ==
    /\ pc = "main_getuid"
    /\ \E root \in BOOLEAN :
         IF root
         THEN /\ pc' = "main_args"
              /\ UNCHANGED <<log, exit_code>>
         ELSE ArgExit(<<Ev("requires root privileges")>>, 1)
    /\ UNCHANGED <<ArgFrame, argv, argi, list_only, fb_id, exposure, tonemap_mode,
                   push_constants, color>>

\* One iteration of for (int i = 1; i < argc; i++) at 2023-2053.  The
\* strings device_path and output_path are not kept.
MainParseArg ==
    /\ pc = "main_args"
    /\ argi < argc
    /\ LET arg == argv[argi]
           has_value == argi + 1 < argc
       IN IF arg = OptList
          THEN /\ list_only' = TRUE
               /\ argi' = argi + 1
               /\ UNCHANGED <<fb_id, exposure, tonemap_mode, pc, log, exit_code>>
          ELSE IF arg \in {OptDevice, OptOutput} /\ has_value
          THEN /\ argi' = argi + 2
               /\ UNCHANGED <<list_only, fb_id, exposure, tonemap_mode, pc, log,
                              exit_code>>
          ELSE IF arg = OptFb /\ has_value
          THEN /\ fb_id' = ToUint32(strtoul(argv[argi + 1]))
               /\ argi' = argi + 2
               /\ UNCHANGED <<list_only, exposure, tonemap_mode, pc, log, exit_code>>
          ELSE IF arg = OptExposure /\ has_value
          THEN /\ exposure' = strtof(argv[argi + 1])
               /\ argi' = IF LessOrEqualZero(exposure') THEN argi + 1 ELSE argi + 2
               /\ IF LessOrEqualZero(exposure')
                  THEN ArgExit(<<Ev("Error: Exposure must be positive")>>, 1)
                  ELSE UNCHANGED <<pc, log, exit_code>>
               /\ UNCHANGED <<list_only, fb_id, tonemap_mode>>
          ELSE IF arg = OptTonemap /\ has_value
          THEN /\ tonemap_mode' = ToUint32(strtoul(argv[argi + 1]))
               /\ argi' = IF Less(<<0, 7>>, tonemap_mode') THEN argi + 1 ELSE argi + 2
               /\ IF Less(<<0, 7>>, tonemap_mode')
                  THEN ArgExit(<<Ev("Error: Invalid tone mapping mode")>>, 1)
                  ELSE UNCHANGED <<pc, log, exit_code>>
               /\ UNCHANGED <<list_only, fb_id, exposure>>
          ELSE IF arg = OptHelp
          THEN /\ ArgExit(<<PrintUsage>>, 0)
               /\ UNCHANGED <<argi, list_only, fb_id, exposure, tonemap_mode>>
          ELSE /\ ArgExit(<<Ev("Unknown argument"), PrintUsage>>, 1)
               /\ UNCHANGED <<argi, list_only, fb_id, exposure, tonemap_mode>>
    /\ UNCHANGED <<ArgFrame, argv, push_constants, color>>

\* the loop is over: printf("Tone mapping settings: ...") at 2055
MainParsed ==
    /\ pc = "main_args"
    /\ argi >= argc
    /\ log' = log \o <<Ev("Tone mapping settings")>>
    /\ pc' = "param_open"
    /\ UNCHANGED <<ArgFrame, argv, argi, list_only, fb_id, exposure, tonemap_mode,
                   exit_code, push_constants, color>>

\* main from open() on, 2058-2104, as far as the parameters are concerned:
\* open may fail; --list returns 0 after list_kms_devices; otherwise a
\* capture strategy is entered with exposure and tonemap_mode as arguments.
ParamOpen ==
    /\ pc = "param_open"
    /\ \E opened \in BOOLEAN :
         IF ~opened
         THEN ArgExit(<<Ev("Failed to open")>>, 1)
         ELSE IF list_only
         THEN ArgExit(<<Acq("drm_fd"), Ev("enter:list_kms_devices"), Rel("drm_fd")>>, 0)
         ELSE /\ log' = log \o <<Acq("drm_fd"), Ev("enter:capture strategy")>>
              /\ pc' = "param_capture"
              /\ UNCHANGED exit_code
    /\ UNCHANGED <<ArgFrame, argv, argi, list_only, fb_id, exposure, tonemap_mode,
                   push_constants, color>>

\* ToneMappingPushConstants push_constants = {.exposure = exposure,
\* .tonemapMode = tonemap_mode} in apply_tone_mapping, whose arguments are
\* main's values passed on at 2101, 1959 and 1868
PushConstants(e, m) == [exposure |-> e, tonemapMode |-> m]

\* tonemap_names[tonemap_mode] at 441-446: the element read, or "outside"
\* for an index past the 8 entries
tonemap_names(m) ==
    IF m[1] = 0 /\ m[2] < 8
    THEN <<"Reinhard", "ACES Fast", "ACES Hill", "ACES Day", "ACES Full RRT",
           "Hable", "Reinhard Extended", "Uchimura">>[m[2] + 1]
    ELSE "outside"

\* The strategy either ends without tone mapping or reaches
\* apply_tone_mapping, which pushes the constants and dispatches the kernel.
ParamCapture ==
    /\ pc = "param_capture"
    /\ \E tone_mapped \in BOOLEAN :
         IF tone_mapped
         THEN /\ push_constants' = PushConstants(exposure, tonemap_mode)
              /\ log' = log \o <<Ev("enter:apply_tone_mapping"), Ev("vkCmdPushConstants"),
                                 Ev("vkCmdDispatch")>>
              /\ pc' = "param_tone_mapped"
         ELSE /\ pc' = "param_exit"
              /\ UNCHANGED <<push_constants, log>>
    /\ UNCHANGED <<ArgFrame, argv, argi, list_only, fb_id, exposure, tonemap_mode,
                   exit_code, color>>

\* apply_tone_mapping after the wait: the message at 445 reads
\* tonemap_names[tonemap_mode]
ParamToneMapped ==
    /\ pc = "param_tone_mapped"
    /\ log' = log \o <<[k |-> "ev", r |-> "tm: tone mapping applied",
                        a |-> tonemap_names(push_constants.tonemapMode)]>>
    /\ pc' = "param_exit"
    /\ UNCHANGED <<ArgFrame, argv, argi, list_only, fb_id, exposure, tonemap_mode,
                   exit_code, push_constants, color>>

\* main: close(drm_fd); return result == 0 ? 0 : 1
ParamExit ==
    /\ pc = "param_exit"
    /\ \E res \in {0, -1} : ArgExit(<<Rel("drm_fd")>>, IF res = 0 THEN 0 ELSE 1)
    /\ UNCHANGED <<ArgFrame, argv, argi, list_only, fb_id, exposure, tonemap_mode,
                   push_constants, color>>

ParamNext ==
    \/ MainGetuid \/ MainParseArg \/ MainParsed \/ ParamOpen \/ ParamCapture
    \/ ParamToneMapped \/ ParamExit

ParamSpec == ArgInit /\ [][ParamNext]_vars

----------------------------------------------------------------------------
(* main of src/hdr_tonemap.comp, 338-401, for one invocation inside the     *)
(* image.  color is the list of the operations applied to the loaded pixel. *)

Step(op, by) == [op |-> op, by |-> by]

\* Mutant: Hable is normalized like Reinhard.
normalization_factor_Hable100(mode) ==
    CASE mode = <<0, 0>> -> 100
      [] mode \in {<<0, 1>>, <<0, 2>>, <<0, 3>>, <<0, 4>>} -> 80
      [] mode = <<0, 5>> -> 100
      [] mode = <<0, 6>> -> 120
      [] mode = <<0, 7>> -> 400
      [] OTHER -> 100

\* switch(params.tonemapMode) at 362-383
normalization_factor(mode) ==
    CASE mode = <<0, 0>> -> 100
      [] mode \in {<<0, 1>>, <<0, 2>>, <<0, 3>>, <<0, 4>>} -> 80
      [] mode = <<0, 5>> -> 200
      [] mode = <<0, 6>> -> 120
      [] mode = <<0, 7>> -> 400
      [] OTHER -> 100

\* apply_tonemap(color, mode) at 308-325: the functions applied, in order
apply_tonemap(mode) ==
    CASE mode = <<0, 0>> -> <<Step("reinhard_tonemap", 0)>>
      [] mode = <<0, 1>> -> <<Step("rec709_to_ap1", 0), Step("aces_narkowicz", 0),
                              Step("ap1_to_rec709", 0)>>
      [] mode = <<0, 2>> -> <<Step("aces_hill", 0)>>
      [] mode = <<0, 3>> -> <<Step("aces_day", 0)>>
      [] mode = <<0, 4>> -> <<Step("aces_rrt_full", 0)>>
      [] mode = <<0, 5>> -> <<Step("hable_tonemap", 0)>>
      [] mode = <<0, 6>> -> <<Step("reinhard_extended", 4)>>
      [] mode = <<0, 7>> -> <<Step("uchimura_tonemap", 0)>>
      [] OTHER -> <<Step("aces_hill", 0)>>

\* Largest value of params.tonemapMode that is enumerated.
MaxMode == 9

\* Values of params.exposure that are enumerated.
ExposureSamples == {FloatOne, Float(FALSE, 5, -1), Float(FALSE, 2, 0)}

\* One invocation, with the block of push constants it was dispatched with.
KernelInit ==
    /\ pc = "kernel_load"
    /\ CaptureIdle
    /\ planes = <<>> /\ found_fb = 0 /\ fb = NoFramebuffer /\ dst_cpu = <<>>
    /\ rgb_data = <<>> /\ file = <<>> /\ create_req = NoDumbBuffer
    /\ linear_map = <<>>
    /\ argv = <<>> /\ argi = 1
    /\ DispatchIdle /\ PacketIdle
    /\ \E e \in ExposureSamples, m \in 0..MaxMode :
         /\ exposure = e
         /\ tonemap_mode = <<0, m>>
         /\ push_constants = PushConstants(e, <<0, m>>)
    /\ color = <<>>

KernelStep(steps, next) ==
    /\ color' = color \o steps
    /\ pc' = next
    /\ UNCHANGED <<ArgFrame, argv, argi, list_only, fb_id, exposure, tonemap_mode,
                   exit_code, push_constants, log>>

\* imageLoad(inputImage, pixelCoord); color = clamp(color, 0.0, 1.0)
KernelLoad ==
    /\ pc = "kernel_load"
    /\ KernelStep(<<Step("imageLoad", 0), Step("clamp", 0)>>, "kernel_pq")

\* color = pq_inverse(color)
KernelPqInverse ==
    /\ pc = "kernel_pq"
    /\ KernelStep(<<Step("pq_inverse", 0)>>, "kernel_primaries")

\* color = rec2020_to_rec709 * color
KernelPrimaries ==
    /\ pc = "kernel_primaries"
    /\ KernelStep(<<Step("rec2020_to_rec709", 0)>>, "kernel_normalize")

\* color = color / normalization_factor
KernelNormalize ==
    /\ pc = "kernel_normalize"
    /\ KernelStep(<<Step("divide", normalization_factor(push_constants.tonemapMode))>>,
                  "kernel_exposure")

\* color = color * params.exposure
KernelExposure ==
    /\ pc = "kernel_exposure"
    /\ KernelStep(<<Step("multiply", push_constants.exposure)>>, "kernel_tonemap")

\* color = apply_tonemap(color, params.tonemapMode)
KernelTonemap ==
    /\ pc = "kernel_tonemap"
    /\ KernelStep(apply_tonemap(push_constants.tonemapMode), "kernel_store")

\* color = clamp(color, 0.0, 1.0); color = linear_to_srgb(color); imageStore
KernelStore ==
    /\ pc = "kernel_store"
    /\ KernelStep(<<Step("clamp", 0), Step("linear_to_srgb", 0),
                    Step("imageStore", 0)>>, "kernel_done")

KernelNext ==
    \/ KernelLoad \/ KernelPqInverse \/ KernelPrimaries \/ KernelNormalize
    \/ KernelExposure \/ KernelTonemap \/ KernelStore

KernelSpec == KernelInit /\ [][KernelNext]_vars

----------------------------------------------------------------------------
(* The dispatch of the kernel: vkCmdDispatch in apply_tone_mapping,        *)
(* src/kms-screenshot.c:405-408, and the bounds check of main,             *)
(* src/hdr_tonemap.comp:338-344.  The invocations share no state, so the   *)
(* order in which the device runs them is immaterial; they are run by      *)
(* increasing gl_GlobalInvocationID and every load and store is counted.   *)

\* layout(local_size_x = 16, local_size_y = 16) in;
local_size == 16

\* Largest width and height of an image in the dispatch runs.
MaxExtent == 17

\* Mutant: the group count is rounded down.
GroupCount_RoundedDown(n) == n \div local_size

\* uint32_t group_count_x = (width + 15) / 16; the extents of the runs are
\* far below 2^32 - 15, where the sum would wrap.
GroupCount(n) == (n + 15) \div local_size

\* one more access to pixel p
Counted(f, p) == IF p \in DOMAIN f THEN [f EXCEPT ![p] = @ + 1] ELSE f @@ (p :> 1)

DispatchInit ==
    /\ pc = "tm_dispatch"
    /\ CaptureIdle
    /\ planes = <<>> /\ found_fb = 0 /\ fb = NoFramebuffer /\ dst_cpu = <<>>
    /\ rgb_data = <<>> /\ file = <<>> /\ create_req = NoDumbBuffer
    /\ linear_map = <<>>
    /\ argv = <<>> /\ argi = 1
    /\ PacketIdle
    /\ exposure = FloatOne /\ tonemap_mode = <<0, 2>>
    /\ push_constants = PushConstants(FloatOne, <<0, 2>>)
    /\ color = <<>>
    /\ \E width \in 1..MaxExtent, height \in 1..MaxExtent : imageSize = <<width, height>>
    /\ group_count = <<0, 0>>
    /\ gl_GlobalInvocationID = NoInvocation
    /\ loads = <<>> /\ stores = <<>> /\ skipped = {}
    /\ curve = NoCurve

\* vkCmdDispatch(cmd_buffer, group_count_x, group_count_y, 1)
TmDispatch ==
    /\ pc = "tm_dispatch"
    /\ LET x == GroupCount(imageSize[1])
           y == GroupCount(imageSize[2])
       IN /\ group_count' = <<x, y>>
          /\ IF x * y = 0
             THEN gl_GlobalInvocationID' = NoInvocation /\ pc' = "dispatch_done"
             ELSE gl_GlobalInvocationID' = <<0, 0>> /\ pc' = "kernel_main"
    /\ UNCHANGED <<driver, modifier, pixel_format, live, uninit, result, ret,
                   queue_flags, planes, found_fb, fb, dst_cpu, rgb_data, file,
                   create_req, linear_map, argv, argi, list_only, fb_id, exposure,
                   tonemap_mode, exit_code, push_constants, color, log, imageSize,
                   loads, stores, skipped, curve, PacketVars>>

\* The invocation after id in a dispatch of group_count workgroups.
NextInvocation(id) ==
    IF id[1] + 1 < group_count[1] * local_size THEN <<id[1] + 1, id[2]>>
    ELSE IF id[2] + 1 < group_count[2] * local_size THEN <<0, id[2] + 1>>
    ELSE NoInvocation

\* main() of one invocation: the bounds check, then imageLoad, the pixel
\* pipeline (KernelSpec) and imageStore at pixelCoord
KernelMain ==
    /\ pc = "kernel_main"
    /\ LET pixelCoord == gl_GlobalInvocationID
       IN IF pixelCoord[1] >= imageSize[1] \/ pixelCoord[2] >= imageSize[2]
          THEN /\ skipped' = skipped \cup {pixelCoord}
               /\ UNCHANGED <<loads, stores>>
          ELSE /\ loads' = Counted(loads, pixelCoord)
               /\ stores' = Counted(stores, pixelCoord)
               /\ UNCHANGED skipped
    /\ gl_GlobalInvocationID' = NextInvocation(gl_GlobalInvocationID)
    /\ pc' = IF NextInvocation(gl_GlobalInvocationID) = NoInvocation
             THEN "dispatch_done" ELSE "kernel_main"
    /\ UNCHANGED <<driver, modifier, pixel_format, live, uninit, result, ret,
                   queue_flags, planes, found_fb, fb, dst_cpu, rgb_data, file,
                   create_req, linear_map, argv, argi, list_only, fb_id, exposure,
                   tonemap_mode, exit_code, push_constants, color, log, imageSize,
                   group_count, curve, PacketVars>>

DispatchNext == TmDispatch \/ KernelMain

DispatchSpec == DispatchInit /\ [][DispatchNext]_vars

----------------------------------------------------------------------------
(* The command stream of amdgpu_copy_buffer, src/kms-screenshot.c:849-889. *)
(* A uint64_t is kept as <<bits 63..48, 47..32, 31..16, 15..0>>, a dword   *)
(* of the IB as <<bits 31..16, bits 15..0>>.                               *)

SDMA_OPCODE_COPY == 1
SDMA_COPY_SUB_OPCODE_LINEAR == 0
\* (((x) & 0xFF) << 0) and (((x) & 0xFF) << 8)
SDMA_PKT_HEADER_OP(x) == x % 256
SDMA_PKT_HEADER_SUB_OP(x) == (x % 256) * 256
\* the two fields do not overlap, so their OR is their sum
SDMA_PKT_COPY_LINEAR_HEADER_DWORD ==
    <<0, SDMA_PKT_HEADER_OP(SDMA_OPCODE_COPY)
         + SDMA_PKT_HEADER_SUB_OP(SDMA_COPY_SUB_OPCODE_LINEAR)>>

\* v - 1 modulo 2^64
Decrement(v) ==
    IF v[4] > 0 THEN <<v[1], v[2], v[3], v[4] - 1>>
    ELSE IF v[3] > 0 THEN <<v[1], v[2], v[3] - 1, 65535>>
    ELSE IF v[2] > 0 THEN <<v[1], v[2] - 1, 65535, 65535>>
    ELSE IF v[1] > 0 THEN <<v[1] - 1, 65535, 65535, 65535>>
    ELSE ULONG_MAX

\* v >> 32
ShiftRight32(v) == <<0, 0, v[1], v[2]>>

\* Mutant: the count field holds the size.
PacketCount_Size(n) == ToUint32(n)

\* ib[1] = size - 1, stored into a uint32_t
PacketCount(n) == ToUint32(Decrement(n))

\* ib[0] .. ib[6] as written at 852-858; v & 0xFFFFFFFF keeps the low dword
CopyPacket(src, dst, n) ==
    <<SDMA_PKT_COPY_LINEAR_HEADER_DWORD,
      PacketCount(n),
      <<0, 0>>,
      ToUint32(src),
      ToUint32(ShiftRight32(src)),
      ToUint32(dst),
      ToUint32(ShiftRight32(dst))>>

\* GPU virtual addresses and sizes of the runs; sizes are pitch * height
\* taken in 32 bits.
VaSamples ==
    {<<0, 0, 32768, 0>>, <<0, 1, 0, 4096>>, <<0, 32768, 65535, 61440>>,
     <<65535, 65535, 65535, 61440>>}
SizeSamples ==
    {<<0, 0, 0, 0>>, <<0, 0, 0, 1>>, <<0, 0, 0, 4096>>, <<0, 0, 1, 0>>,
     <<0, 0, 65535, 65535>>}
\* Largest sequence number amdgpu_cs_submit hands back in the runs.
MaxSeqNo == 2

\* amdgpu_copy_buffer with the IB allocated, mapped and bound
PacketInit ==
    /\ pc = "copy_packet"
    /\ CaptureIdle
    /\ planes = <<>> /\ found_fb = 0 /\ fb = NoFramebuffer /\ dst_cpu = <<>>
    /\ rgb_data = <<>> /\ file = <<>> /\ create_req = NoDumbBuffer
    /\ linear_map = <<>>
    /\ argv = <<>> /\ argi = 1
    /\ exposure = FloatOne /\ tonemap_mode = <<0, 2>>
    /\ push_constants = NoPushConstants /\ color = <<>>
    /\ DispatchIdle
    /\ src_va \in VaSamples /\ dst_va \in VaSamples /\ copy_size \in SizeSamples
    /\ ib = <<>>
    /\ ibs_request = [NoRequest EXCEPT !.ring = 0, !.seq_no = 0]
    /\ fence_status = [NoFence EXCEPT !.ip_instance = 0, !.ring = 0, !.fence = 0]
    /\ submitted = <<>>

PacketFrame == <<driver, modifier, pixel_format, live, uninit, result,
                 queue_flags, planes, found_fb, fb, dst_cpu, rgb_data, file,
                 create_req, linear_map, argv, argi, list_only, fb_id, exposure,
                 tonemap_mode, exit_code, push_constants, color, log, DispatchVars,
                 src_va, dst_va, copy_size>>

\* the packet at 852-858, ib_info at 861-862 and the request at 865-869
PacketWrite ==
    /\ pc = "copy_packet"
    /\ ib' = CopyPacket(src_va, dst_va, copy_size)
    /\ ibs_request' = [ip_type |-> "AMDGPU_HW_IP_DMA", ring |-> 0,
                       number_of_ibs |-> 1, ib_size |-> 7,
                       seq_no |-> ibs_request.seq_no]
    /\ pc' = "copy_packet_submit"
    /\ UNCHANGED <<PacketFrame, ret, fence_status, submitted>>

\* r = amdgpu_cs_submit(ctx, 0, &ibs_request, 1); if (r) goto cleanup;
PacketSubmit ==
    /\ pc = "copy_packet_submit"
    /\ \E ok \in BOOLEAN, seq_no \in 1..MaxSeqNo :
         IF ok
         THEN /\ submitted' = Append(submitted, [request |-> ibs_request, ib |-> ib])
              /\ ibs_request' = [ibs_request EXCEPT !.seq_no = seq_no]
              /\ pc' = "copy_packet_fence"
              /\ UNCHANGED ret
         ELSE /\ ret' = SetRet("copy", -1)
              /\ pc' = "copy_packet_done"
              /\ UNCHANGED <<ibs_request, submitted>>
    /\ UNCHANGED <<PacketFrame, ib, fence_status>>

\* fence_status at 881-885 and amdgpu_cs_query_fence_status(&fence_status,
\* AMDGPU_TIMEOUT_INFINITE, 0, &expired), whose failure is only printed
PacketFenceWait ==
    /\ pc = "copy_packet_fence"
    /\ fence_status' = [ip_type |-> "AMDGPU_HW_IP_DMA", ip_instance |-> 0,
                        ring |-> 0, fence |-> ibs_request.seq_no,
                        timeout |-> "AMDGPU_TIMEOUT_INFINITE"]
    /\ \E ok \in BOOLEAN : ret' = SetRet("copy", IF ok THEN 0 ELSE -1)
    /\ pc' = "copy_packet_done"
    /\ UNCHANGED <<PacketFrame, ib, ibs_request, submitted>>

PacketNext == PacketWrite \/ PacketSubmit \/ PacketFenceWait

PacketSpec == PacketInit /\ [][PacketNext]_vars

----------------------------------------------------------------------------
(* Exact arithmetic for the tone curves of src/hdr_tonemap.comp.  A        *)
(* natural number is kept as its base-10000 digits, least significant      *)
(* first and without leading zeros; a float of the shader is kept as the   *)
(* exact fraction num / den of such numbers with a sign.  The constants    *)
(* are the decimals written in the source and no result is rounded to the  *)
(* 24 bits of a float.                                                     *)

\* The largest power of ten such that a product of two digits and a carry
\* stays below 2^31.
Base == 100 * 100

RECURSIVE Big(_)
\* the digits of the integer n >= 0
Big(n) == IF n = 0 THEN <<>> ELSE <<n % Base>> \o Big(n \div Base)

RECURSIVE NatAddCarry(_, _, _)
NatAddCarry(a, b, carry) ==
    IF a = <<>> /\ b = <<>> THEN (IF carry = 0 THEN <<>> ELSE <<carry>>)
    ELSE LET x == IF a = <<>> THEN 0 ELSE a[1]
             y == IF b = <<>> THEN 0 ELSE b[1]
             t == x + y + carry
         IN <<t % Base>> \o NatAddCarry(IF a = <<>> THEN a ELSE Tail(a),
                                        IF b = <<>> THEN b ELSE Tail(b),
                                        t \div Base)
NatAdd(a, b) == NatAddCarry(a, b, 0)

RECURSIVE NatTrim(_)
\* without leading zeros
NatTrim(a) ==
    IF a # <<>> /\ a[Len(a)] = 0 THEN NatTrim(SubSeq(a, 1, Len(a) - 1)) ELSE a

RECURSIVE NatSubBorrow(_, _, _)
NatSubBorrow(a, b, borrow) ==
    IF a = <<>> THEN <<>>
    ELSE LET y == IF b = <<>> THEN 0 ELSE b[1]
             t == a[1] - y - borrow
         IN <<IF t < 0 THEN t + Base ELSE t>>
            \o NatSubBorrow(Tail(a), IF b = <<>> THEN b ELSE Tail(b),
                            IF t < 0 THEN 1 ELSE 0)
\* a - b for a >= b
NatSub(a, b) == NatTrim(NatSubBorrow(a, b, 0))

RECURSIVE NatScale(_, _, _)
\* a * k + carry for a digit k
NatScale(a, k, carry) ==
    IF a = <<>> THEN (IF carry = 0 THEN <<>> ELSE <<carry>>)
    ELSE LET t == a[1] * k + carry
         IN <<t % Base>> \o NatScale(Tail(a), k, t \div Base)

RECURSIVE NatMul(_, _)
NatMul(a, b) ==
    IF a = <<>> \/ b = <<>> THEN <<>>
    ELSE NatAdd(NatScale(a, b[1], 0),
                LET rest == NatMul(a, Tail(b))
                IN IF rest = <<>> THEN <<>> ELSE <<0>> \o rest)

RECURSIVE NatLessFrom(_, _, _)
NatLessFrom(a, b, i) ==
    IF i = 0 THEN FALSE
    ELSE IF a[i] # b[i] THEN a[i] < b[i]
    ELSE NatLessFrom(a, b, i - 1)
NatLess(a, b) ==
    IF Len(a) # Len(b) THEN Len(a) < Len(b) ELSE NatLessFrom(a, b, Len(a))

RECURSIVE Lowered(_, _)
\* n / d without the factors Base that n and d share
Lowered(n, d) ==
    IF n # <<>> /\ n[1] = 0 /\ d[1] = 0 THEN Lowered(Tail(n), Tail(d))
    ELSE [num |-> n, den |-> d]

\* The fraction n / d, negated when negative; zero is never negative and
\* has the denominator 1.
Frac(negative, n, d) ==
    IF n = <<>> THEN [negative |-> FALSE, num |-> <<>>, den |-> <<1>>]
    ELSE [negative |-> negative, num |-> Lowered(n, d).num, den |-> Lowered(n, d).den]
\* the decimal m * 10^-e of the source text, m an integer
RECURSIVE Pow10(_)
Pow10(e) == IF e = 0 THEN Big(1) ELSE NatScale(Pow10(e - 1), 10, 0)
Dec(m, e) == Frac(m < 0, Big(IF m < 0 THEN -m ELSE m), Pow10(e))

FracNeg(a) == Frac(~a.negative, a.num, a.den)
FracAdd(a, b) ==
    LET same == a.den = b.den
        x == IF same THEN a.num ELSE NatMul(a.num, b.den)
        y == IF same THEN b.num ELSE NatMul(b.num, a.den)
        d == IF same THEN a.den ELSE NatMul(a.den, b.den)
    IN IF a.negative = b.negative THEN Frac(a.negative, NatAdd(x, y), d)
       ELSE IF NatLess(x, y) THEN Frac(b.negative, NatSub(y, x), d)
       ELSE Frac(a.negative, NatSub(x, y), d)
FracSub(a, b) == FracAdd(a, FracNeg(b))
FracMul(a, b) ==
    Frac(a.negative # b.negative, NatMul(a.num, b.num), NatMul(a.den, b.den))
\* a / b for b other than zero
FracDiv(a, b) ==
    Frac(a.negative # b.negative, NatMul(a.num, b.den), NatMul(a.den, b.num))
\* a < b
FracLess(a, b) == FracSub(a, b).negative
FracMin(a, b) == IF FracLess(b, a) THEN b ELSE a
FracMax(a, b) == IF FracLess(a, b) THEN b ELSE a

----------------------------------------------------------------------------
(* The tone curves of src/hdr_tonemap.comp:157-325 and steps 6 and 7 of    *)
(* main, on vec3 values kept as triples of fractions.  The operators that  *)
(* call pow, exp or atan (aces_rrt_full, mode 4; uchimura_tonemap, mode 7) *)
(* have no exact value and are not enumerated.                             *)

Zero == Dec(0, 0)
One == Dec(1, 0)

vec3(x) == <<x, x, x>>
\* componentwise operations of GLSL, a scalar operand applying to each channel
Add3(u, v) == [i \in 1..3 |-> FracAdd(u[i], v[i])]
Mul3(u, v) == [i \in 1..3 |-> FracMul(u[i], v[i])]
Div3(u, v) == [i \in 1..3 |-> FracDiv(u[i], v[i])]
\* mat3 * vec3, the matrix given by its columns
MatVec(m, v) ==
    [i \in 1..3 |-> FracAdd(FracAdd(FracMul(m[1][i], v[1]), FracMul(m[2][i], v[2])),
                            FracMul(m[3][i], v[3]))]

rec709_to_ap1 ==
    << <<Dec(6131, 4), Dec(3395, 4), Dec(474, 4)>>,
       <<Dec(701, 4), Dec(9164, 4), Dec(137, 4)>>,
       <<Dec(206, 4), Dec(1096, 4), Dec(8698, 4)>> >>

ap1_to_rec709 ==
    << <<Dec(17051, 4), Dec(-6218, 4), Dec(-833, 4)>>,
       <<Dec(-1303, 4), Dec(11408, 4), Dec(-105, 4)>>,
       <<Dec(-240, 4), Dec(-1290, 4), Dec(11530, 4)>> >>

\* clamp(color, lo, hi) = min(max(color, lo), hi)
clamp(v, lo, hi) == [i \in 1..3 |-> FracMin(FracMax(v[i], lo), hi)]

reinhard_tonemap(c) == Div3(c, Add3(c, vec3(One)))

reinhard_extended_NoWhitePoint(c, white_point) == Div3(c, Add3(vec3(One), c))
reinhard_extended(c, white_point) ==
    LET numerator ==
            Mul3(c, Add3(vec3(One), Div3(c, vec3(FracMul(white_point, white_point)))))
    IN Div3(numerator, Add3(vec3(One), c))

hable_curve(x) ==
    LET A == vec3(Dec(15, 2))
        B == vec3(Dec(50, 2))
        C == vec3(Dec(10, 2))
        D == vec3(Dec(20, 2))
        E == vec3(Dec(2, 2))
        F == vec3(Dec(30, 2))
        minus(v) == [i \in 1..3 |-> FracNeg(v[i])]
    IN Add3(Div3(Add3(Mul3(x, Add3(Mul3(A, x), Mul3(C, B))), Mul3(D, E)),
                 Add3(Mul3(x, Add3(Mul3(A, x), B)), Mul3(D, F))),
            minus(Div3(E, F)))

hable_tonemap(c) ==
    LET W == Dec(112, 1)
    IN Div3(hable_curve(Mul3(c, vec3(Dec(2, 0)))), hable_curve(vec3(W)))

aces_narkowicz(c) ==
    LET a == vec3(Dec(251, 2))
        b == vec3(Dec(3, 2))
        cc == vec3(Dec(243, 2))
        d == vec3(Dec(59, 2))
        e == vec3(Dec(14, 2))
    IN clamp(Div3(Mul3(c, Add3(Mul3(a, c), b)),
                  Add3(Mul3(c, Add3(Mul3(cc, c), d)), e)), Zero, One)

aces_hill(c) ==
    LET ap1 == MatVec(rec709_to_ap1, c)
        a == Add3(Mul3(ap1, Add3(ap1, vec3(Dec(245786, 7)))), vec3(Dec(-90537, 9)))
        b == Add3(Mul3(ap1, Add3(Mul3(vec3(Dec(983729, 6)), ap1),
                                 vec3(Dec(4329510, 7)))),
                  vec3(Dec(238081, 6)))
    IN MatVec(ap1_to_rec709, Div3(a, b))

aces_day(c) ==
    LET ap1 == Mul3(MatVec(rec709_to_ap1, c), vec3(Dec(6, 1)))
        a == Add3(Mul3(ap1, vec3(Dec(251, 2))), vec3(Dec(3, 2)))
        b == Add3(Mul3(ap1, vec3(Dec(243, 2))), vec3(Dec(59, 2)))
    IN MatVec(ap1_to_rec709,
              clamp(Div3(Mul3(ap1, a), Add3(Mul3(ap1, b), vec3(Dec(14, 2)))),
                    Zero, One))

\* The value of one function of apply_tonemap's list.  aces_rrt_full and
\* uchimura_tonemap have no arm: they are not rational.
TonemapValue(step, c) ==
    CASE step.op = "reinhard_tonemap" -> reinhard_tonemap(c)
      [] step.op = "rec709_to_ap1" -> MatVec(rec709_to_ap1, c)
      [] step.op = "aces_narkowicz" -> aces_narkowicz(c)
      [] step.op = "ap1_to_rec709" -> MatVec(ap1_to_rec709, c)
      [] step.op = "aces_hill" -> aces_hill(c)
      [] step.op = "aces_day" -> aces_day(c)
      [] step.op = "hable_tonemap" -> hable_tonemap(c)
      [] step.op = "reinhard_extended" -> reinhard_extended(c, Dec(step.by, 0))

RECURSIVE Evaluated(_, _)
\* the functions of steps applied to c, in order
Evaluated(steps, c) ==
    IF steps = <<>> THEN c ELSE Evaluated(Tail(steps), TonemapValue(Head(steps), c))

\* The modes whose operator is enumerated; 8 takes the default arm.
CurveModes == {0, 1, 2, 3, 5, 6, 8}

\* Channel values that are enumerated: black, below and at 1, the white
\* point 4 of mode 6, the white point 11.2 / 2 of mode 5, and above both.
LevelSamples ==
    {Zero, Dec(5, 1), One, Dec(4, 0), Dec(5, 0), Dec(56, 1), Dec(6, 0),
     Dec(20, 0), Dec(32, 0)}

\* The colours that are enumerated: the grays and the primaries of two levels.
ColorSamples ==
    {vec3(x) : x \in LevelSamples}
    \cup {[i \in 1..3 |-> IF i = k THEN x ELSE Zero] :
            k \in 1..3, x \in {One, Dec(32, 0)}}

\* color after step 5, with non-negative channels, and params.tonemapMode
CurveInit ==
    /\ pc = "tone_curve"
    /\ CaptureIdle
    /\ planes = <<>> /\ found_fb = 0 /\ fb = NoFramebuffer /\ dst_cpu = <<>>
    /\ rgb_data = <<>> /\ file = <<>> /\ create_req = NoDumbBuffer
    /\ linear_map = <<>>
    /\ argv = <<>> /\ argi = 1
    /\ exposure = FloatOne /\ tonemap_mode = <<0, 2>>
    /\ push_constants = NoPushConstants /\ color = <<>>
    /\ imageSize = <<0, 0>> /\ group_count = <<0, 0>>
    /\ gl_GlobalInvocationID = NoInvocation
    /\ loads = <<>> /\ stores = <<>> /\ skipped = {}
    /\ PacketIdle
    /\ \E mode \in CurveModes, c \in ColorSamples :
         curve = [NoCurve EXCEPT !.tonemapMode = <<0, mode>>, !.before = c]

CurveFrame == <<driver, modifier, pixel_format, live, uninit, result, ret,
                queue_flags, planes, found_fb, fb, dst_cpu, rgb_data, file,
                create_req, linear_map, argv, argi, list_only, fb_id, exposure,
                tonemap_mode, exit_code, push_constants, color, log, imageSize,
                group_count, gl_GlobalInvocationID, loads, stores, skipped,
                PacketVars>>

\* STEP 6: color = apply_tonemap(color, params.tonemapMode)
TonemapStep ==
    /\ pc = "tone_curve"
    /\ curve' = [curve EXCEPT !.mapped = Evaluated(apply_tonemap(curve.tonemapMode),
                                               curve.before)]
    /\ pc' = "tone_clamp"
    /\ UNCHANGED CurveFrame

\* STEP 7: color = clamp(color, 0.0, 1.0)
ClampStep ==
    /\ pc = "tone_clamp"
    /\ curve' = [curve EXCEPT !.clamped = clamp(curve.mapped, Zero, One)]
    /\ pc' = "tone_done"
    /\ UNCHANGED CurveFrame

CurveNext == TonemapStep \/ ClampStep

CurveSpec == CurveInit /\ [][CurveNext]_vars

----------------------------------------------------------------------------
(* Vocabulary of the properties *)

Exited == pc = "exited"
EnterInit == Ev("enter:init_vulkan_context")
EnterVk == Ev("enter:vulkan_deswizzle_framebuffer")
EnterTonemap == Ev("enter:apply_tone_mapping")
EnterAmdgpu == Ev("enter:capture_framebuffer_amdgpu")
EnterDumb == Ev("dumb-buffer shadow strategy")

\* e1 occurs, and some e2 occurs after the last e1
Follows(e1, e2) == Has(e1) /\ \E i \in DOMAIN log : log[i] = e2 /\ i > Last(e1)
\* e occurs somewhere after position i
HasAfter(i, e) == \E j \in DOMAIN log : j > i /\ log[j] = e
Kinds(k) == {i \in DOMAIN log : log[i].k = k}

\* The orchestrator holds the framebuffer metadata and has taken its decision.
OrchDecided == Has(Acq("orch.fb2")) /\ pc # "orch_modifier"

----------------------------------------------------------------------------
\* C1: strategy selection.  The compute path (E) is attempted exactly when the
\* driver is amdgpu and the modifier the orchestrator fetched is tiled; after
\* a successful (E) neither (D) nor the dumb-buffer path runs and the exit
\* status is 0; amdgpu with a linear modifier goes to (D) without any compute
\* context; any other driver runs the dumb-buffer path only.
C1_StrategySelection ==
    /\ Has(EnterInit) => driver = "amdgpu" /\ Tiled(modifier)
    /\ (driver = "amdgpu" /\ Tiled(modifier) /\ OrchDecided) => Has(EnterInit)
    /\ (Returned("vk") /\ ret["vk"] = 0) =>
          /\ ~Has(EnterAmdgpu) /\ ~Has(EnterDumb)
          /\ Exited => exit_code = 0
    /\ (driver = "amdgpu" /\ ~Tiled(modifier) /\ OrchDecided) =>
          /\ Has(EnterAmdgpu)
          /\ ~Has(EnterInit) /\ ~Has(Acq("instance"))
    /\ driver # "amdgpu" =>
          /\ ~Has(EnterInit) /\ ~Has(EnterVk) /\ ~Has(EnterAmdgpu)
          /\ pc \notin {"main_open", "main_list", "main_find", "main_version",
                        "dumb_version", "exited"} => Has(EnterDumb)

C1_Witness ==
    /\ Exited /\ exit_code = 0
    /\ driver = "amdgpu" /\ Tiled(modifier)
    /\ Has(EnterInit) /\ Returned("vk") /\ ret["vk"] = 0
    /\ Has(Acq("output file"))

----------------------------------------------------------------------------
\* The failures of the compute path that the ladder claim enumerates.
EFailures ==
    { \* compute-context initialization
      Ev("vkCreateInstance failed"), Ev("no suitable physical device"),
      Ev("no suitable queue family"), Ev("vkCreateDevice failed"),
      Ev("vkCreateCommandPool failed"),
      \* dmabuf export
      Ev("vk: dmabuf export failed"),
      \* pipeline creation
      Ev("vkCreateShaderModule failed"), Ev("vkCreateDescriptorSetLayout failed"),
      Ev("vkCreatePipelineLayout failed"), Ev("vkCreateComputePipelines failed"),
      Ev("vkCreateDescriptorPool failed"),
      \* external-memory import
      Ev("vk: dmabuf import failed"),
      \* image / memory creation
      Ev("vk: source image failed"), Ev("vk: source bind failed"),
      Ev("vk: intermediate image failed"), Ev("vk: intermediate memory failed"),
      Ev("vk: intermediate bind failed"), Ev("vk: destination image failed"),
      Ev("vk: destination memory failed"), Ev("vk: destination bind failed"),
      \* submission
      Ev("vk: command buffer failed"), Ev("vk: copy submit failed"),
      Ev("vk: copy wait failed"),
      \* tone mapping
      Ev("tm: descriptor set failed"), Ev("tm: input view failed"),
      Ev("tm: output view failed"), Ev("tm: command buffer failed"),
      Ev("tm: submit failed"), Ev("tm: wait failed"),
      \* readback mapping
      Ev("vk: map failed") }

\* The two searches of the image / memory creation phase that give up with
\* "goto cleanup" while result is still VK_SUCCESS.
EMemoryTypeFailures ==
    { Ev("vk: no memory type for intermediate image"),
      Ev("vk: no memory type for destination image") }

EFailed(S) == \E e \in S : Has(e)

\* The ladder as it holds for the failures in S.
LadderAfter(S) ==
    (EFailed(S) /\ pc \notin {"orch_after_init", "orch_after_vk", "vk_cleanup"}) =>
        /\ Count(EnterAmdgpu) = 1
        /\ \A e \in S : Has(e) => Last(e) < First(EnterAmdgpu)
        /\ Count(EnterInit) = 1 /\ Count(EnterVk) <= 1
        /\ ~HasAfter(First(EnterAmdgpu), EnterInit)
        /\ ~HasAfter(First(EnterAmdgpu), EnterVk)
        /\ Exited => /\ Returned("amdgpu")
                     /\ (exit_code = 0 <=> ret["amdgpu"] = 0)

\* The ladder holds for every failure that vulkan_deswizzle_framebuffer and
\* init_vulkan_context report with a non-zero return.
LadderAfterReportedFailures == LadderAfter(EFailures)

\* C2: ladder E -> D.  Once any step of the compute path (context
\* initialization, dmabuf export, pipeline creation, import, image / memory
\* creation including the memory-type searches, submission, tone mapping,
\* readback mapping) has failed and the orchestrator has acted on it, the DMA
\* path has been entered exactly once, after the failure, the compute path
\* was not entered again, and the exit status is 0 exactly when the DMA path
\* returned 0.
C2_LadderEtoD == LadderAfter(EFailures \cup EMemoryTypeFailures)

----------------------------------------------------------------------------
\* C3: last rung.  On amdgpu, when every accelerated strategy that ran has
\* failed, the dumb-buffer shadow strategy is attempted before the process
\* exits 1.
C3_DumbIsLastRung ==
    (Exited /\ exit_code = 1 /\ driver = "amdgpu"
       /\ Returned("amdgpu") /\ ret["amdgpu"] # 0) => Has(EnterDumb)

----------------------------------------------------------------------------
\* The strategy that was running at log position i.
StrategyAt(i) ==
    LET starts == {j \in 1..i : log[j] \in {EnterInit, EnterAmdgpu, EnterDumb}}
    IN IF starts = {} THEN "none"
       ELSE LET j == CHOOSE m \in starts : \A n \in starts : n <= m
            IN IF log[j] = EnterInit THEN "vk"
               ELSE IF log[j] = EnterAmdgpu THEN "amdgpu" ELSE "dumb"

OpenedBy(f) ==
    \E i \in DOMAIN log : log[i] = Acq("output file") /\ StrategyAt(i) = f

\* C4: no partial outputs.  write_ppm is called at most once per run, each
\* call comes directly after convert_to_rgb24 has filled the raster, and a
\* strategy that returned failure did not open the output file.
C4_NoPartialOutputs ==
    /\ Count(Ev("write_ppm")) <= 1
    /\ \A i \in DOMAIN log : log[i] = Ev("write_ppm") =>
          i > 1 /\ log[i-1].k = "convert_to_rgb24"
    /\ \A i \in DOMAIN log : log[i] = Acq("output file") =>
          i > 1 /\ log[i-1] = Ev("write_ppm")
    /\ \A f \in {"vk", "amdgpu", "dumb"} :
          (Returned(f) /\ ret[f] # 0) => ~OpenedBy(f)

C4_Witness ==
    /\ Exited
    /\ Returned("vk") /\ ret["vk"] # 0
    /\ OpenedBy("amdgpu")
    /\ Count(Ev("write_ppm")) = 1

----------------------------------------------------------------------------
\* C5: success means an image.  A capture run exits 0 only if write_ppm was
\* called on a converted raster, and vulkan_deswizzle_framebuffer returns 0
\* only if it mapped the final image, converted it and called write_ppm.
C5_SuccessMeansImage ==
    /\ (Exited /\ exit_code = 0 /\ ~list_only) => Has(Ev("write_ppm"))
    /\ (Returned("vk") /\ ret["vk"] = 0) =>
          /\ Has(Acq("mapped_data"))
          /\ Kinds("convert_to_rgb24") # {}
          /\ Has(Ev("write_ppm"))

----------------------------------------------------------------------------
\* C6: host I/O failure.  When fopen fails inside write_ppm the strategy
\* reports failure and the process exits 1, without another strategy being
\* tried.
C6_WriteFailureExits1 ==
    Has(Ev("fopen failed")) =>
        /\ \A f \in {"vk", "amdgpu", "dumb"} :
              (Returned(f) /\ StrategyAt(First(Ev("fopen failed"))) = f) => ret[f] # 0
        /\ Exited => exit_code = 1
        /\ Count(Ev("write_ppm")) = 1

----------------------------------------------------------------------------
\* C7: tiled -> linear blit for every format.  Whenever the compute path maps
\* the final image, a copy out of the imported tiled image was recorded,
\* submitted and waited on before; for SDR the image read back is the
\* destination of that copy.
C7_BlitForEveryFormat ==
    Has(Acq("mapped_data")) =>
        \E i \in Kinds("vkCmdCopyImage") :
            /\ log[i].r = "src_image"
            /\ i < First(Ev("vkQueueSubmit:copy"))
            /\ First(Ev("vkQueueWaitIdle:copy")) < First(Acq("mapped_data"))
            /\ ~needs_tone_mapping => log[i].a = "dst_image"

----------------------------------------------------------------------------
PipelineObjects ==
    {"shader_module", "descriptor_set_layout", "pipeline_layout",
     "compute_pipeline", "descriptor_pool"}

\* C8: HDR branch.  Past the copy submission, the tone-mapping kernel is
\* invoked exactly for ABGR16161616; it is invoked and dispatched at most
\* once, after the copy has been waited on, from the intermediate image (the
\* destination of the copy) into the 8-bit destination image; the readback of
\* a tone-mapped capture converts as ABGR8888; other formats never create or
\* destroy a tone-map pipeline object.
C8_HdrBranch ==
    /\ Has(Ev("vkQueueWaitIdle:copy")) => (Has(EnterTonemap) <=> needs_tone_mapping)
    /\ Has(EnterTonemap) => pixel_format = "ABGR16161616"
    /\ Count(EnterTonemap) <= 1
    /\ Cardinality(Kinds("vkCmdDispatch")) <= 1
    /\ Precedes(Ev("vkQueueWaitIdle:copy"), EnterTonemap)
    /\ \A i \in Kinds("vkCmdDispatch") :
          /\ log[i] = Dispatch("intermediate_image", "dst_image")
          /\ Has(ImageFormat("intermediate_image", "R16G16B16A16_UNORM"))
          /\ Has(ImageFormat("dst_image", "R8G8B8A8_UNORM"))
          /\ \E j \in 1..(i-1) : log[j] = CopyImage("src_image", "intermediate_image")
          /\ First(EnterTonemap) < i
    /\ \A i \in Kinds("convert_to_rgb24") :
          (log[i].r = "dst_image" /\ needs_tone_mapping) =>
              /\ log[i].a = "ABGR8888"
              /\ Has(Ev("vkQueueWaitIdle:tonemap"))
              /\ Last(Ev("vkQueueWaitIdle:tonemap")) < i
    /\ ~needs_tone_mapping =>
          \A r \in PipelineObjects : ~Has(Acq(r)) /\ ~Has(Rel(r))

C8_Witness ==
    /\ needs_tone_mapping
    /\ Returned("tonemap") /\ ret["tonemap"] = 0
    /\ Has(Convert("dst_image", "ABGR8888"))
    /\ Returned("vk") /\ ret["vk"] = 0

----------------------------------------------------------------------------
\* Everything capture_framebuffer_amdgpu and amdgpu_copy_buffer acquire.
AmdgpuResources ==
    {"amdgpu.fb2", "adev", "ctx", "prime_fd", "src_bo", "src_va_handle",
     "src_va_map", "dst_bo", "dst_va_handle", "dst_va_map", "dst_cpu",
     "amdgpu.rgb_data", "ib_bo", "ib_cpu", "ib_va_handle", "ib_va_map"}

\* The failures the unwinding claim enumerates.
AmdgpuFailures ==
    {Ev("amdgpu: device init failed"), Ev("amdgpu: context failed"),
     Ev("amdgpu: import failed"), Ev("amdgpu: prime export failed"),
     Ev("amdgpu: query info failed"), Ev("amdgpu: source VA alloc failed"),
     Ev("amdgpu: source VA map failed"), Ev("amdgpu: destination alloc failed"),
     Ev("amdgpu: destination VA alloc failed"),
     Ev("amdgpu: destination VA map failed"),
     Ev("copy: IB alloc failed"), Ev("copy: IB map failed"),
     Ev("copy: IB VA alloc failed"), Ev("copy: IB VA map failed"),
     Ev("copy: submit failed"), Ev("copy: fence wait failed"),
     Ev("amdgpu: destination map failed"), Ev("amdgpu: rgb malloc failed")}

\* r was acquired at most once, released as often as acquired, and never
\* released before it was acquired
ReleasedExactlyOnce(r) ==
    /\ Count(Acq(r)) <= 1
    /\ Count(Rel(r)) = Count(Acq(r))
    /\ Precedes(Acq(r), Rel(r))

\* C9: DMA path unwinding.  After a failure at any enumerated step the
\* routine has returned a negative result, and at its return every resource
\* it acquired has been released exactly once and nothing else was released.
C9_AmdgpuUnwinding ==
    (\E e \in AmdgpuFailures : Has(e)) =>
        /\ Returned("amdgpu") /\ ret["amdgpu"] < 0
        /\ \A r \in AmdgpuResources : ReleasedExactlyOnce(r)

C9_Witness ==
    /\ Has(Ev("copy: fence wait failed"))
    /\ Returned("amdgpu") /\ ret["amdgpu"] < 0
    /\ Count(Rel("ib_va_map")) = 1 /\ Count(Rel("dst_va_map")) = 1
    /\ Count(Rel("src_bo")) = 1

----------------------------------------------------------------------------
\* Everything capture_framebuffer creates.
DumbResources ==
    {"dumb.fb2", "dumb_buffer", "linear_map", "src_map", "src_prime_fd",
     "dst_prime_fd", "dumb.rgb_data"}

\* C10: dumb-buffer path leak freedom.  On every return of capture_framebuffer
\* every resource it created has been released exactly once.
C10_DumbLeakFree ==
    Returned("dumb") => \A r \in DumbResources : ReleasedExactlyOnce(r)

----------------------------------------------------------------------------
\* The calls of the source import in capture_framebuffer_amdgpu.
ImportFlink == Ev("import:flink")
ImportDmabuf == Ev("import:dma_buf")
FlinkFailed == Ev("amdgpu: flink import failed")
ExportFailed == Ev("amdgpu: prime export failed")

\* C11: source import protocol of the DMA path.  The flink import is the
\* first import and is made once; the dmabuf export and the dmabuf import
\* happen only after the flink import failed; the exported descriptor is
\* closed exactly once, directly after the dmabuf import call (only the
\* buffer handle that call returned stands between them), whether the import
\* succeeded or not; when the export fails too no import is retried and the
\* path returns a negative result.
C11_ImportProtocol ==
    /\ Count(ImportFlink) <= 1 /\ Count(ImportDmabuf) <= 1
    /\ Count(Acq("prime_fd")) <= 1
    /\ \A e \in {Acq("prime_fd"), ExportFailed, ImportDmabuf} :
          Has(e) => /\ Has(FlinkFailed)
                    /\ First(ImportFlink) < First(FlinkFailed)
                    /\ First(FlinkFailed) < First(e)
    /\ Has(ImportDmabuf) => Has(Acq("prime_fd"))
                             /\ First(Acq("prime_fd")) < First(ImportDmabuf)
    /\ (Has(Acq("prime_fd")) /\ pc # "amdgpu_import_prime") =>
          /\ Has(ImportDmabuf)
          /\ Count(Rel("prime_fd")) = 1
          /\ LET i == First(ImportDmabuf)
                 j == First(Rel("prime_fd"))
             IN \/ j = i + 1
                \/ j = i + 2 /\ log[i + 1] = Acq("src_bo")
    /\ ~Has(Acq("prime_fd")) => ~Has(Rel("prime_fd"))
    /\ Has(ExportFailed) =>
          /\ ~Has(ImportDmabuf) /\ ~Has(Acq("src_bo"))
          /\ Returned("amdgpu") /\ ret["amdgpu"] < 0

\* The retry was made, its import failed, and the descriptor was closed.
C11_Witness ==
    /\ Has(FlinkFailed) /\ Has(Acq("prime_fd")) /\ Has(ImportDmabuf)
    /\ Has(Ev("amdgpu: import failed"))
    /\ Count(Rel("prime_fd")) = 1
    /\ Returned("amdgpu") /\ ret["amdgpu"] < 0

----------------------------------------------------------------------------
\* C12: queue capability.  Whenever init_vulkan_context has returned 0 the
\* queue family it selected offers graphics, transfer and compute; in
\* particular a family with transfer only, or with graphics but no compute,
\* is never the selected one.
C12_QueueCapability ==
    (Returned("init") /\ ret["init"] = 0) =>
        {"GRAPHICS", "TRANSFER", "COMPUTE"} \subseteq queue_flags

----------------------------------------------------------------------------
\* The planes that count: the plane and its FB2 metadata can be fetched and
\* its framebuffer id is not 0.
Qualifies(p) == p.plane /\ p.fb_id # 0 /\ p.fb2
Area(p) == Product(p.width, p.height)
QualifyingPlanes == {i \in DOMAIN planes : Qualifies(planes[i])}
RECURSIVE WithoutFbZero(_)
WithoutFbZero(ps) ==
    IF ps = <<>> THEN <<>>
    ELSE (IF ps[1].plane /\ ps[1].fb_id = 0 THEN <<>> ELSE <<ps[1]>>)
         \o WithoutFbZero(Tail(ps))

\* C13: primary selection.  When every qualifying plane has an area below
\* 2^32, find_primary_framebuffer returns the framebuffer id of the first
\* plane, in enumeration order, whose area is the largest among the
\* qualifying planes, and -1 when none qualifies; removing the planes with
\* framebuffer id 0 from the list does not change the result.
C13_PrimarySelection ==
    (pc = "data_found" /\ \A i \in QualifyingPlanes : Area(planes[i])[1] < 65536) =>
        /\ QualifyingPlanes = {} => found_fb = -1
        /\ QualifyingPlanes # {} =>
              \E i \in QualifyingPlanes :
                  /\ found_fb = planes[i].fb_id
                  /\ \A j \in QualifyingPlanes : ~Less(Area(planes[i]), Area(planes[j]))
                  /\ \A j \in QualifyingPlanes :
                        j < i => Less(Area(planes[j]), Area(planes[i]))
        /\ found_fb = find_primary_framebuffer(TRUE, WithoutFbZero(planes))

\* Two framebuffers of the same, largest area behind a plane without one:
\* the first seen is returned.
C13_Witness ==
    /\ pc = "data_found" /\ Len(planes) = 3
    /\ planes[1].plane /\ planes[1].fb_id = 0
    /\ Qualifies(planes[2]) /\ Qualifies(planes[3])
    /\ planes[2].fb_id # planes[3].fb_id
    /\ Area(planes[2]) = Area(planes[3])
    /\ found_fb = planes[2].fb_id

----------------------------------------------------------------------------
\* The target framebuffer could not be discovered: the first FB2 query a run
\* makes for it failed (the orchestrator's on amdgpu, capture_framebuffer's
\* otherwise, with or without an answer from the legacy query, or the query
\* of the DMA path when no compute context was tried), or auto-detection
\* found no framebuffer.
DiscoveryFailed ==
    \/ Has(Ev("orch: no framebuffer info"))
    \/ Has(Ev("dumb: no framebuffer info"))
    \/ Has(Ev("dumb: legacy FB has no pixel format"))
    \/ (Has(Ev("amdgpu: no framebuffer info")) /\ ~Has(EnterInit))
    \/ (Returned("find") /\ ret["find"] < 0)

\* What a run may hold without having created a device context, a buffer,
\* a PRIME FD or the output file: the device node and query answers.
DiscoveryHandles ==
    {"drm_fd", "version", "dumb.version", "orch.fb2", "dumb.fb"}

----------------------------------------------------------------------------
(* Vocabulary of the byte-level properties *)

\* convert_to_rgb24 has run on dst_cpu and filled rgb_data
Converted == pc \in {"data_write", "data_done"}

Pixels == {<<x, y>> : x \in 0..(fb.width - 1), y \in 0..(fb.height - 1)}

\* Byte k of the pixel (x, y) in the buffer given to convert_to_rgb24; on the
\* little-endian hosts the program runs on, byte k holds bits 8k .. 8k+7 of
\* the pixel value.
SrcByte(xy, k) ==
    dst_cpu[xy[2] * fb.pitch + xy[1] * ElementSize(fb.pixel_format) + k + 1]

\* The three bytes the raster holds for pixel (x, y).
OutRgb(xy) ==
    LET at == (xy[2] * fb.width + xy[1]) * 3
    IN <<rgb_data[at + 1], rgb_data[at + 2], rgb_data[at + 3]>>

\* The buffer with byte k of every element replaced by v.
WithElementByte(buf, format, k, v) ==
    [o \in DOMAIN buf |-> IF (o - 1) % ElementSize(format) = k THEN v ELSE buf[o]]

FreshRgb == [o \in 1..(fb.width * fb.height * 3 + GuardBytes) |-> Indeterminate]

ConvertOf(buf) ==
    convert_to_rgb24(buf, FreshRgb, fb.width, fb.height, fb.pixel_format, fb.pitch)

\* C15: byte order of the 8-bit formats.  For a pixel value 0xXXRRGGBB
\* (stored as the bytes BB, GG, RR, XX) the raster holds (RR, GG, BB) when
\* the format is ARGB8888 or XRGB8888 and (BB, GG, RR) when it is ABGR8888
\* or XBGR8888, and replacing the top byte of every pixel by any other value
\* leaves the raster as it is.
C15_ByteOrder8Bit ==
    (Converted /\ fb.pixel_format \in {"XRGB8888", "ARGB8888", "XBGR8888", "ABGR8888"}) =>
        /\ \A xy \in Pixels :
              LET BB == SrcByte(xy, 0)
                  GG == SrcByte(xy, 1)
                  RR == SrcByte(xy, 2)
              IN IF fb.pixel_format \in {"XRGB8888", "ARGB8888"}
                 THEN OutRgb(xy) = <<RR, GG, BB>>
                 ELSE OutRgb(xy) = <<BB, GG, RR>>
        /\ \A v \in ByteSamples :
              ConvertOf(WithElementByte(dst_cpu, fb.pixel_format, 3, v)) = rgb_data

\* An XRGB8888 pixel with three different colour bytes and a non-zero top
\* byte has been converted.
C15_Witness ==
    /\ Converted /\ fb.pixel_format = "XRGB8888"
    /\ SrcByte(<<0, 0>>, 0) = 0 /\ SrcByte(<<0, 0>>, 1) = 108
    /\ SrcByte(<<0, 0>>, 2) = 180 /\ SrcByte(<<0, 0>>, 3) = 255
    /\ OutRgb(<<0, 0>>) = <<180, 108, 0>>

----------------------------------------------------------------------------
\* The 16-bit channel c (0 = R, 1 = G, 2 = B, 3 = A) of an ABGR16161616
\* pixel: bits 16c .. 16c+15 of the 64-bit little-endian word.
Channel16(xy, c) == SrcByte(xy, 2 * c) + 256 * SrcByte(xy, 2 * c + 1)

\* C16: HDR reduction.  For an ABGR16161616 pixel with channels (R, G, B, A)
\* the raster holds (R >> 8, G >> 8, B >> 8), and replacing the alpha bytes
\* or the low byte of any channel by any other value leaves the raster as
\* it is.
C16_HdrReduction ==
    (Converted /\ fb.pixel_format = "ABGR16161616") =>
        /\ \A xy \in Pixels :
              OutRgb(xy) = <<Channel16(xy, 0) \div 256, Channel16(xy, 1) \div 256,
                             Channel16(xy, 2) \div 256>>
        /\ \A k \in {0, 2, 4, 6, 7} : \A v \in ByteSamples :
              ConvertOf(WithElementByte(dst_cpu, fb.pixel_format, k, v)) = rgb_data

\* A pixel whose channels have different high and low bytes was reduced.
C16_Witness ==
    /\ Converted /\ fb.pixel_format = "ABGR16161616"
    /\ Channel16(<<0, 0>>, 0) = 108 * 256 + 180
    /\ Channel16(<<0, 0>>, 1) = 255 * 256 + 108
    /\ Channel16(<<0, 0>>, 2) = 180 * 256 + 255
    /\ Channel16(<<0, 0>>, 3) # 0
    /\ OutRgb(<<0, 0>>) = <<108, 255, 180>>

----------------------------------------------------------------------------
\* Bytes per pixel of a recognized format.
Bpp(format) == ElementSize(format)

\* The offsets of the buffer that lie in the first width * bpp bytes of a row.
RowPrefix ==
    { y * fb.pitch + j : y \in 0..(fb.height - 1),
                         j \in 0..(fb.width * Bpp(fb.pixel_format) - 1) }

\* The buffer with every byte outside the row prefixes replaced by v.
WithTrailingBytes(buf, v) ==
    [o \in DOMAIN buf |-> IF (o - 1) \in RowPrefix THEN buf[o] ELSE v]

\* C17: stride independence and output bounds.  For a recognized format and
\* a stride of at least width * bpp, convert_to_rgb24 loads only from the
\* first width * bpp bytes of each row, gives the same raster when the
\* trailing bytes of the rows are replaced, stores a byte in each of the
\* width * height * 3 cells of the destination and in no cell after them,
\* and the pixel (x, y) of the source is stored at offset y * width * 3 + 3 x.
C17_StrideIndependence ==
    (Converted /\ Recognized(fb.pixel_format)
       /\ fb.pitch >= fb.width * Bpp(fb.pixel_format)) =>
        /\ SourceReads(fb.width, fb.height, fb.pixel_format, fb.pitch) \subseteq RowPrefix
        /\ \A v \in ByteSamples : ConvertOf(WithTrailingBytes(dst_cpu, v)) = rgb_data
        /\ \A o \in 1..(fb.width * fb.height * 3) : rgb_data[o] \in 0..255
        /\ \A o \in (fb.width * fb.height * 3 + 1)..Len(rgb_data) :
              rgb_data[o] = Indeterminate
        /\ \A xy \in Pixels :
              OutRgb(xy) = PixelRgb(fb.pixel_format, dst_cpu,
                                    xy[2] * fb.pitch + xy[1] * Bpp(fb.pixel_format))

\* A framebuffer of two rows with padding behind each row was converted.
C17_Witness ==
    /\ Converted /\ Recognized(fb.pixel_format)
    /\ fb.height = 2 /\ fb.width = 2
    /\ fb.pitch > fb.width * Bpp(fb.pixel_format)
    /\ \A o \in 1..12 : rgb_data[o] \in 0..255
    /\ OutRgb(<<1, 1>>) # OutRgb(<<0, 0>>)

----------------------------------------------------------------------------
\* C18: unrecognized format.  For a format outside the six recognized ones
\* convert_to_rgb24 prints the diagnostic, loads nothing from the source
\* (whatever the source holds, the raster is the same) and leaves 0 in each
\* of the width * height * 3 bytes of the destination.
C18_UnrecognizedFormat ==
    (Converted /\ ~Recognized(fb.pixel_format)) =>
        /\ Count(Ev("Unsupported pixel format")) = 1
        /\ SourceReads(fb.width, fb.height, fb.pixel_format, fb.pitch) = {}
        /\ \A v \in ByteSamples :
              ConvertOf([o \in DOMAIN dst_cpu |-> v]) = rgb_data
        /\ \A o \in 1..(fb.width * fb.height * 3) : rgb_data[o] = 0

\* An NV12 framebuffer with non-zero bytes was handed to the conversion.
C18_Witness ==
    /\ Converted /\ fb.pixel_format = "NV12"
    /\ fb.width = 2 /\ fb.height = 2
    /\ \A o \in DOMAIN dst_cpu : dst_cpu[o] # 0
    /\ Has(Ev("Unsupported pixel format"))
    /\ \A o \in 1..12 : rgb_data[o] = 0

----------------------------------------------------------------------------
\* "P6\n<w> <h>\n255\n" for one-digit w and h, as character codes.
ExpectedHeader ==
    <<80, 54, 10, 48 + fb.width, 32, 48 + fb.height, 10, 50, 53, 53, 10>>

\* The file is the header followed by the width * height * 3 bytes of the
\* raster and nothing else.
ExactPpm ==
    /\ Len(file) = Len(ExpectedHeader) + fb.width * fb.height * 3
    /\ SubSeq(file, 1, Len(ExpectedHeader)) = ExpectedHeader
    /\ \A o \in 1..(fb.width * fb.height * 3) :
          file[Len(ExpectedHeader) + o] = rgb_data[o]

WritePpmReturned0 ==
    pc = "data_done" /\ Returned("write_ppm") /\ ret["write_ppm"] = 0

\* What does hold: the file is exact whenever it has the full length, i.e.
\* whenever fwrite stored all the items it was asked to store.
ExactPpmWhenComplete ==
    (WritePpmReturned0
       /\ Len(file) = Len(ExpectedHeader) + fb.width * fb.height * 3) => ExactPpm

\* C19: output file format.  Whenever write_ppm has returned 0 the file is
\* exactly "P6\n<w> <h>\n255\n" followed by the width * height * 3 bytes of
\* the raster, in order, and nothing else.
C19_OutputFileFormat == WritePpmReturned0 => ExactPpm

----------------------------------------------------------------------------
\* The linear SDR scenario: the 8 x 8 XRGB8888 raster went through the copy,
\* the conversion and write_ppm, and every item reached the file.
ScenarioWritten ==
    /\ pc = "data_done"
    /\ fb.width = 8 /\ fb.height = 8 /\ fb.pixel_format = "XRGB8888"
    /\ fb.mem = ScenarioMemory
    /\ Returned("write_ppm") /\ ret["write_ppm"] = 0
    /\ Len(file) = 11 + 8 * 8 * 3

\* "P6\n8 8\n255\n"
ScenarioHeader == <<80, 54, 10, 56, 32, 56, 10, 50, 53, 53, 10>>

\* The three bytes of pixel (x, y) in the file of an 8 pixels wide image.
FilePixel(x, y) ==
    LET at == Len(ScenarioHeader) + (y * 8 + x) * 3
    IN <<file[at + 1], file[at + 2], file[at + 3]>>

\* C20 as stated: in the linear SDR scenario the file starts with
\* "P6\n8 8\n255\n" and the bytes of pixel (3, 5) are (0xB4, 0x00, 0x6C).
C20_ScenarioAsStated ==
    ScenarioWritten =>
        /\ SubSeq(file, 1, 11) = ScenarioHeader
        /\ FilePixel(3, 5) = <<180, 0, 108>>

\* C20, amended: in the linear SDR scenario the file starts with
\* "P6\n8 8\n255\n" and the bytes of pixel (3, 5) are (0xB4, 0x6C, 0x00):
\* R = 36 * 5, G = 36 * 3, B = 0.
C20_LinearSdrScenario ==
    ScenarioWritten =>
        /\ SubSeq(file, 1, 11) = ScenarioHeader
        /\ FilePixel(3, 5) = <<180, 108, 0>>
        /\ \A x \in 0..7, y \in 0..7 : FilePixel(x, y) = <<36 * y, 36 * x, 0>>

C20_Witness ==
    /\ ScenarioWritten
    /\ dst_cpu = ScenarioMemory
    /\ FilePixel(3, 5) = <<180, 108, 0>>

----------------------------------------------------------------------------
\* The direct copy of the dumb-buffer path has been taken: the source was
\* mapped and the loop at 1287-1313 ran or was stopped by a signal.
ShadowCopied == pc # "shadow_src_mmap" /\ Has(Acq("src_map"))

EightBitFormats == {"XRGB8888", "ARGB8888", "XBGR8888", "ABGR8888"}

\* The four bytes of pixel xy in the mapped dumb buffer.
ShadowBytes(xy) ==
    [k \in 1..4 |-> linear_map[xy[2] * create_req.pitch + xy[1] * 4 + k]]

\* The four bytes of pixel xy of a 4-byte source format.
SourceBytes4(xy) == [k \in 1..4 |-> fb.mem[xy[2] * fb.pitch + xy[1] * 4 + k]]

\* What does hold: an ABGR16161616 source is reduced to the high byte of
\* each channel, stored as B, G, R, A, and read inside its mapping.
ShadowCopyOfHdrSource ==
    (ShadowCopied /\ fb.pixel_format = "ABGR16161616") =>
        /\ pc # "shadow_signalled"
        /\ \A xy \in Pixels :
             ShadowBytes(xy) =
                 [k \in 1..4 |->
                     fb.mem[xy[2] * fb.pitch + xy[1] * 8
                            + (CASE k = 1 -> 6 [] k = 2 -> 4 [] k = 3 -> 2 [] k = 4 -> 8)]]

\* C21: dumb-buffer shadow copy.  When the source is CPU-mappable, the copy
\* loads only bytes inside the pitch * height bytes mapped from the source,
\* whatever the format, and for a source in a 4-byte 8-bit format the shadow
\* pixel (x, y) equals the source pixel (x, y): the 16-to-8-bit reduction is
\* applied to ABGR16161616 sources only.
C21_ShadowCopy ==
    ShadowCopied =>
        /\ ShadowReads(fb.width, fb.height, fb.pitch)
               \subseteq 0..(fb.pitch * fb.height - 1)
        /\ pc # "shadow_signalled"
        /\ fb.pixel_format \in EightBitFormats =>
               \A xy \in Pixels : ShadowBytes(xy) = SourceBytes4(xy)

----------------------------------------------------------------------------
\* The source could not be mapped and the dumb buffer was filled instead.
PatternTaken == Has(Ev("test pattern"))

RgbMallocFailed == Has(Ev("dumb: rgb malloc failed"))

\* write_ppm stored the header and every item of the raster.
RasterWritten ==
    /\ Returned("write_ppm") /\ ret["write_ppm"] = 0
    /\ Len(file) = Len(PpmHeader(create_req.width, create_req.height))
                       + create_req.width * create_req.height * 3

\* The three bytes of pixel xy in the raster of the file.
RasterPixel(xy) ==
    LET at == Len(PpmHeader(create_req.width, create_req.height))
                  + (xy[2] * create_req.width + xy[1]) * 3
    IN <<file[at + 1], file[at + 2], file[at + 3]>>

----------------------------------------------------------------------------
\* The invocation has stored its pixel.
KernelDone == pc = "kernel_done"

\* The tone curves of the kernel.
Operators ==
    {"reinhard_tonemap", "aces_narkowicz", "aces_hill", "aces_day",
     "aces_rrt_full", "hable_tonemap", "reinhard_extended", "uchimura_tonemap"}

\* The mode table of the specification: factor and operator of mode m.
ModeFactor(m) == <<100, 80, 80, 80, 80, 200, 120, 400>>[m + 1]
ModeOperator(m) ==
    <<"reinhard_tonemap", "aces_narkowicz", "aces_hill", "aces_day",
      "aces_rrt_full", "hable_tonemap", "reinhard_extended",
      "uchimura_tonemap">>[m + 1]

\* The positions of color at which op was applied.
Applied(op) == {n \in DOMAIN color : color[n].op = op}

\* C23: mode table.  For every mode m in 0..7 the kernel divides by the
\* factor 100, 80, 80, 80, 80, 200, 120, 400 of m, then multiplies by the
\* exposure, then applies the one operator named for m (Reinhard-Extended
\* with white 4) and no other; factor and operator are selected by the same
\* mode value.
C23_ModeTable ==
    (KernelDone /\ push_constants.tonemapMode[2] \in 0..7) =>
        LET m == push_constants.tonemapMode[2]
        IN /\ \E d \in Applied("divide"), e \in Applied("multiply"),
                 t \in Applied(ModeOperator(m)) :
                 /\ Applied("divide") = {d} /\ Applied("multiply") = {e}
                 /\ color[d].by = ModeFactor(m)
                 /\ color[e].by = push_constants.exposure
                 /\ d < e /\ e < t
                 /\ ModeOperator(m) = "reinhard_extended" => color[t].by = 4
                 /\ \A n \in DOMAIN color : color[n].op \in Operators => n = t

C23_Witness ==
    /\ KernelDone
    /\ push_constants.tonemapMode = <<0, 5>>
    /\ \E d \in Applied("divide") : color[d].by = 200
    /\ Applied("hable_tonemap") # {}

----------------------------------------------------------------------------
\* main has handed exposure and tonemap_mode to a capture strategy.
StrategyReached == Has(Ev("enter:capture strategy"))

Pushed == Has(Ev("vkCmdPushConstants"))

\* f > 0
Positive(f) == f.class \in {"finite", "inf"} /\ ~f.negative

Given(option) == \E n \in DOMAIN argv : argv[n] = option

\* What does hold: the mode is in 0..7, the defaults are 2 and 1.0, the
\* block pushed holds main's values, and the exposure is not <= 0.
ParametersChecked ==
    StrategyReached =>
        /\ tonemap_mode[1] = 0 /\ tonemap_mode[2] \in 0..7
        /\ ~LessOrEqualZero(exposure)
        /\ ~Given(OptTonemap) => tonemap_mode = <<0, 2>>
        /\ ~Given(OptExposure) => exposure = FloatOne
        /\ Pushed => push_constants = PushConstants(exposure, tonemap_mode)

\* C24: parameter invariant.  In every run that reaches a capture strategy
\* the tone-map mode is in 0..7, so that the read of the 8-entry name table
\* in apply_tone_mapping is in bounds, and the exposure is > 0; without the
\* options the values are mode 2 and exposure 1.0; the values pushed to the
\* kernel are the parsed values.
C24_ParameterInvariant ==
    StrategyReached =>
        /\ tonemap_mode[1] = 0 /\ tonemap_mode[2] \in 0..7
        /\ \A n \in DOMAIN log :
               log[n].r = "tm: tone mapping applied" => log[n].a # "outside"
        /\ Positive(exposure)
        /\ ~Given(OptTonemap) => tonemap_mode = <<0, 2>>
        /\ ~Given(OptExposure) => exposure = FloatOne
        /\ Pushed => push_constants = PushConstants(exposure, tonemap_mode)

----------------------------------------------------------------------------
\* The words of a command line as the usage text defines them.
ValueOptions == {OptDevice, OptOutput, OptFb, OptExposure, OptTonemap}

\* w is an unsigned integer literal: decimal digits, or hex digits after 0x.
Numeric(w) ==
    /\ w # <<>>
    /\ \/ DigitSpan(w, 10) = Len(w)
       \/ /\ Len(w) >= 3 /\ w[1] = "0" /\ w[2] \in {"x", "X"}
          /\ DigitSpan(Tail(Tail(w)), 16) = Len(w) - 2

\* w is digits with at most one point and at least one digit.
DecimalLiteral(w) ==
    /\ \E n \in DOMAIN w : DigitValue(w[n]) < 10
    /\ \A n \in DOMAIN w : DigitValue(w[n]) < 10 \/ w[n] = "."
    /\ Cardinality({n \in DOMAIN w : w[n] = "."}) <= 1

\* The value w is malformed for the option: not a number, or out of range.
BadValue(option, w) ==
    CASE option = OptFb ->
             ~Numeric(w) \/ strtoul(w)[1] # 0 \/ strtoul(w)[2] # 0
      [] option = OptTonemap ->
             ~Numeric(w) \/ Less(<<0, 7>>, ToUint32(strtoul(w)))
                \/ strtoul(w)[1] # 0 \/ strtoul(w)[2] # 0
      [] option = OptExposure -> ~DecimalLiteral(w) \/ ~Positive(strtof(w))
      [] OTHER -> FALSE

\* The first word of args that is wrong, read left to right up to --help:
\* "unknown", "missing" (a value option as the last word), "value", or
\* "none".
RECURSIVE ArgumentError(_)
ArgumentError(args) ==
    IF args = <<>> \/ args[1] = OptHelp THEN "none"
    ELSE IF args[1] = OptList THEN ArgumentError(Tail(args))
    ELSE IF args[1] \notin ValueOptions THEN "unknown"
    ELSE IF Len(args) < 2 THEN "missing"
    ELSE IF BadValue(args[1], args[2]) THEN "value"
    ELSE ArgumentError(Tail(Tail(args)))

\* main has left the argument loop, as root.
ArgumentsHandled ==
    /\ pc \notin {"main_getuid", "main_args"}
    /\ ~Has(Ev("requires root privileges"))

UsageAndExit1 ==
    /\ pc = "exited" /\ exit_code = 1
    /\ Has(PrintUsage)
    /\ ~Has(Acq("drm_fd")) /\ ~Has(Ev("Failed to open"))

\* What does hold: unknown options and missing values print the usage text
\* and exit 1 before the device is opened, and no run with a value that is
\* out of range for --tonemap or --exposure opens the device.
ArgumentErrorsCaught ==
    ArgumentsHandled =>
        /\ ArgumentError(argv) \in {"unknown", "missing"} => UsageAndExit1
        /\ (\E n \in DOMAIN argv : argv[n] = <<"9">> /\ n > 1
                                     /\ argv[n - 1] = OptTonemap
                                     /\ ArgumentError(SubSeq(argv, 1, n - 2)) = "none"
                                     /\ \A k \in 1..(n - 2) : argv[k] # OptHelp)
              => (pc = "exited" /\ exit_code = 1 /\ ~Has(Acq("drm_fd")))

\* C25: argument errors.  Every unknown option, every value option given as
\* the last argument without its value, and every malformed (non-numeric or
\* out-of-range) value of --fb, --tonemap or --exposure makes the program
\* print the usage text and exit 1 before the DRM device is opened.
C25_ArgumentErrors ==
    (ArgumentsHandled /\ ArgumentError(argv) # "none") => UsageAndExit1

----------------------------------------------------------------------------
\* --list was given and list_kms_devices has been called.
Listed == list_only /\ Has(Ev("enter:list_kms_devices"))

\* The run entered no capture routine and did not touch the output file.
NothingCaptured ==
    /\ \A e \in {Ev("enter:find_primary_framebuffer"),
                 Ev("enter:capture_framebuffer_with_vulkan_fallback"),
                 Ev("enter:capture_framebuffer"), EnterInit, EnterVk, EnterAmdgpu,
                 EnterDumb, Ev("write_ppm"), Acq("output file")} : ~Has(e)

\* What does hold: with --list the run lists, captures nothing and exits.
ListingCapturesNothing ==
    /\ list_only => NothingCaptured
    /\ Listed => (Exited /\ Returned("list"))

\* C26: listing mode.  With --list the program enumerates the planes and
\* exits without attempting a capture strategy and without creating the
\* output file; the exit code is 0 when the listing succeeded and 1 when the
\* plane enumeration failed.
C26_ListingMode ==
    /\ list_only => NothingCaptured
    /\ Listed =>
         /\ Exited /\ Returned("list")
         /\ exit_code = IF ret["list"] = 0 THEN 0 ELSE 1

----------------------------------------------------------------------------
\* The three buffers of the DMA path.
DmaBuffers == {"src", "dst", "ib"}
Bo(b) == CASE b = "src" -> "src_bo" [] b = "dst" -> "dst_bo" [] b = "ib" -> "ib_bo"
VaRange(b) ==
    CASE b = "src" -> "src_va_handle" [] b = "dst" -> "dst_va_handle"
      [] b = "ib" -> "ib_va_handle"
VaMap(b) ==
    CASE b = "src" -> "src_va_map" [] b = "dst" -> "dst_va_map"
      [] b = "ib" -> "ib_va_map"

\* r is held just before position n of the log.
HeldAt(r, n) ==
    Cardinality({j \in 1..(n - 1) : log[j] = Acq(r)})
        > Cardinality({j \in 1..(n - 1) : log[j] = Rel(r)})

\* C27: VA/BO lifecycle order in the DMA path.  On every path and for each
\* of the source, destination and IB buffers: when the VA range or the BO is
\* freed its binding is not mapped (it was unmapped before, or never
\* mapped); no command is submitted after a binding was unmapped; and when
\* the device is deinitialized every BO and the context have been freed.
C27_VaBoLifecycle ==
    \A n \in DOMAIN log :
        /\ \A b \in DmaBuffers :
             log[n] \in {Rel(VaRange(b)), Rel(Bo(b))} => ~HeldAt(VaMap(b), n)
        /\ log[n] = Ev("amdgpu_cs_submit") =>
             /\ \A b \in DmaBuffers : HeldAt(VaMap(b), n)
             /\ \A b \in DmaBuffers : \A j \in 1..(n - 1) : log[j] # Rel(VaMap(b))
        /\ log[n] = Rel("adev") =>
             /\ \A b \in DmaBuffers : ~HeldAt(Bo(b), n)
             /\ ~HeldAt("ctx", n)
             /\ \A j \in (n + 1)..Len(log) :
                  log[j] \notin {Rel(Bo(b)) : b \in DmaBuffers} \cup {Rel("ctx")}

C27_Witness ==
    /\ Exited
    /\ Has(Ev("amdgpu_cs_submit")) /\ Has(Ev("copy: fence wait failed"))
    /\ \A b \in DmaBuffers :
         /\ Has(Rel(VaMap(b))) /\ Has(Rel(VaRange(b))) /\ Has(Rel(Bo(b)))
         /\ Last(Rel(VaMap(b))) < First(Rel(VaRange(b)))
    /\ Has(Rel("adev"))

----------------------------------------------------------------------------
\* The DMA path has returned 0.
DmaSucceeded == Returned("amdgpu") /\ ret["amdgpu"] = 0

\* The position of convert_to_rgb24(dst_cpu, ...) in the log.
DmaConverted ==
    CHOOSE n \in DOMAIN log : log[n].k = "convert_to_rgb24" /\ log[n].r = "dst_cpu"

\* Every release of r comes before every release of s.
ReleasedBefore(r, s) ==
    \A i, j \in DOMAIN log : (log[i] = Rel(r) /\ log[j] = Rel(s)) => i < j

IsDmaRelease(e) == e.k = "rel" /\ e.r \in AmdgpuResources \ {"prime_fd"}

\* The resources of the DMA path in the order of their release.
DmaReleases ==
    LET rels == SelectSeq(log, IsDmaRelease)
    IN [n \in DOMAIN rels |-> rels[n].r]

\* C28 as stated: on the success path of the DMA path the destination is
\* converted while the source, destination and IB are all bound; then the
\* CPU mapping is removed, then the three bindings are unbound (destination,
\* source, IB), then the three BOs are freed, then the VA ranges, then the
\* context, then the device.
C28_ReleaseOrderAsStated ==
    DmaSucceeded =>
        /\ \A b \in DmaBuffers : HeldAt(VaMap(b), DmaConverted)
        /\ ReleasedBefore("dst_cpu", "dst_va_map")
        /\ ReleasedBefore("dst_va_map", "src_va_map")
        /\ ReleasedBefore("src_va_map", "ib_va_map")
        /\ \A b, c \in DmaBuffers :
             /\ ReleasedBefore(VaMap(b), Bo(c))
             /\ ReleasedBefore(Bo(b), VaRange(c))
             /\ ReleasedBefore(VaRange(b), "ctx")
        /\ ReleasedBefore("ctx", "adev")

\* C28, amended: on the success path the IB is unbound and freed (binding,
\* VA range, CPU mapping, BO) inside amdgpu_copy_buffer, after the fence
\* wait and before the destination is CPU-mapped; the destination is
\* converted while the source and the destination are bound; then the CPU
\* mapping is removed, then the destination is unbound, its VA range freed
\* and its BO freed, then the same for the source, then the context is
\* freed, then the device is deinitialized.
C28_ReleaseOrder ==
    DmaSucceeded =>
        /\ HeldAt("src_va_map", DmaConverted) /\ HeldAt("dst_va_map", DmaConverted)
        /\ HeldAt("dst_cpu", DmaConverted)
        /\ First(Ev("fence signalled")) < First(Rel("ib_va_map"))
        /\ Last(Rel("ib_bo")) < First(Acq("dst_cpu"))
        /\ DmaReleases =
             <<"ib_va_map", "ib_va_handle", "ib_cpu", "ib_bo", "amdgpu.rgb_data",
               "dst_cpu", "dst_va_map", "dst_va_handle", "dst_bo", "src_va_map",
               "src_va_handle", "src_bo", "ctx", "adev", "amdgpu.fb2">>

C28_Witness ==
    /\ Exited /\ DmaSucceeded
    /\ Has(Acq("output file"))
    /\ ~HeldAt("ib_va_map", DmaConverted)
    /\ Len(DmaReleases) = 15

----------------------------------------------------------------------------
\* Everything vulkan_deswizzle_framebuffer and apply_tone_mapping acquire.
ComputeResources ==
    {"vk.fb2", "dmabuf_fd", "shader_module", "descriptor_set_layout",
     "pipeline_layout", "compute_pipeline", "descriptor_pool", "src_image",
     "src_memory", "intermediate_image", "intermediate_memory", "dst_image",
     "dst_memory", "cmd_buffer", "descriptor_set", "input_view", "output_view",
     "tm.cmd_buffer", "mapped_data", "vk.rgb_data"}

\* The position of the first e in the log, 0 when there is none.
At(e) == IF Has(e) THEN First(e) ELSE 0

\* Among the resources of S that were acquired and released, one acquired
\* while another was held is released before that other one.
ReleasedInReverse(S) ==
    LET acq == [r \in S |-> At(Acq(r))]
        rel == [r \in S |-> At(Rel(r))]
        done == {r \in S : acq[r] > 0 /\ rel[r] > acq[r]}
    IN \A r \in done : \A s \in done :
         (acq[r] < acq[s] /\ acq[s] < rel[r]) => rel[s] < rel[r]

\* C29: strict LIFO cleanup.  In each of the three strategies and on every
\* exit the resources are released in exactly the reverse of the order in
\* which they were acquired.
C29_StrictLifo ==
    /\ Returned("amdgpu") => ReleasedInReverse(AmdgpuResources)
    /\ Returned("vk") => ReleasedInReverse(ComputeResources)
    /\ Returned("dumb") => ReleasedInReverse(DumbResources)

\* The releases of S in the order of the log.
ReleasesOf(S) ==
    LET IsRel(e) == e.k = "rel" /\ e.r \in S
        rels == SelectSeq(log, IsRel)
    IN [n \in DOMAIN rels |-> rels[n].r]

\* What the label cleanup: of the compute path does once all three images
\* have their memory: the intermediate pair goes before the destination
\* pair, which was acquired after it.
ComputeCleanupOrder ==
    (Returned("vk") /\ Has(Acq("intermediate_memory")) /\ Has(Acq("dst_memory"))) =>
        ReleasesOf({"intermediate_memory", "intermediate_image", "dst_memory",
                    "dst_image", "src_memory", "src_image", "dmabuf_fd", "vk.fb2"})
            = <<"intermediate_memory", "intermediate_image", "dst_memory",
                "dst_image", "src_memory", "src_image", "dmabuf_fd", "vk.fb2">>

----------------------------------------------------------------------------
ComputeImages == {"src_image", "intermediate_image", "dst_image"}
ComputeMemories == {"src_memory", "intermediate_memory", "dst_memory"}
ComputePipelineObjects ==
    {"descriptor_pool", "compute_pipeline", "pipeline_layout", "descriptor_set_layout"}
ComputeCommandBuffers == {"cmd_buffer", "tm.cmd_buffer"}

\* C30: external-import release order.  On every exit of the compute path
\* after the source image exists, all images are destroyed before any device
\* memory is freed, the memories are freed before the dmabuf FD is closed,
\* the FD is closed before the tone-map pipeline objects are destroyed, and
\* every command buffer the path allocated is freed before it returns.
C30_ImportReleaseOrder ==
    (Returned("vk") /\ Has(Acq("src_image"))) =>
        /\ \A i \in ComputeImages : \A m \in ComputeMemories : ReleasedBefore(i, m)
        /\ \A m \in ComputeMemories : ReleasedBefore(m, "dmabuf_fd")
        /\ \A p \in ComputePipelineObjects : ReleasedBefore("dmabuf_fd", p)
        /\ \A c \in ComputeCommandBuffers : Count(Rel(c)) = Count(Acq(c))

\* What the code does keep: each memory is freed before its image is
\* destroyed, the source pair goes before the tone-map pipeline objects, and
\* those before the dmabuf FD and the FB2 metadata.
ComputeReleaseOrder ==
    (Returned("vk") /\ Has(Acq("src_image"))) =>
        LET rel == [r \in ComputeResources |-> At(Rel(r))]
            Before(r, s) == (rel[r] > 0 /\ rel[s] > 0) => rel[r] < rel[s]
        IN /\ Before("src_memory", "src_image")
           /\ Before("intermediate_memory", "intermediate_image")
           /\ Before("dst_memory", "dst_image")
           /\ Before("intermediate_image", "src_memory")
           /\ Before("dst_image", "src_memory")
           /\ \A p \in ComputePipelineObjects :
                Before("src_image", p) /\ Before(p, "dmabuf_fd")
           /\ rel["src_image"] > 0 /\ rel["src_image"] < rel["dmabuf_fd"]
           /\ rel["dmabuf_fd"] < rel["vk.fb2"]

\* The compute path never frees a command buffer.
CommandBuffersNeverFreed == \A c \in ComputeCommandBuffers : ~Has(Rel(c))

----------------------------------------------------------------------------
\* The handles the cleanup of vulkan_deswizzle_framebuffer is responsible for.
ComputeHandles ==
    ComputeImages \cup ComputeMemories \cup ComputePipelineObjects
        \cup {"shader_module", "dmabuf_fd"}

\* C31: compute-path cleanup touches only what exists.  On every return of
\* vulkan_deswizzle_framebuffer, whatever step failed, a destroy/free call
\* was issued only for handles created in this invocation, and each created
\* image, memory, pipeline object and the dmabuf FD was released exactly once.
C31_CleanupOnlyWhatExists ==
    Returned("vk") => \A r \in ComputeHandles : ReleasedExactlyOnce(r)

\* Every handle but the destination image and its memory is treated so.
InitializedHandlesReleasedOnce ==
    Returned("vk") =>
        \A r \in ComputeHandles \ {"dst_image", "dst_memory"} : ReleasedExactlyOnce(r)

\* The destination handles are released without having been created only
\* when the cleanup is reached before they were assigned.
DestinationReleasedUncreated ==
    \A r \in {"dst_image", "dst_memory"} :
        (Returned("vk") /\ ~ReleasedExactlyOnce(r)) =>
            /\ r \in uninit
            /\ ~Has(Acq(r)) /\ Count(Rel(r)) = 1

----------------------------------------------------------------------------
ImageViews == {"input_view", "output_view"}

\* The return paths of apply_tone_mapping that follow a failure.
TonemapFailures ==
    {Ev("tm: descriptor set failed"), Ev("tm: input view failed"),
     Ev("tm: output view failed"), Ev("tm: command buffer failed"),
     Ev("tm: submit failed"), Ev("tm: wait failed")}

\* C32: image views of the tone-map invocation.  On every return path of
\* apply_tone_mapping (each failure and success) every image view created
\* during the invocation has been destroyed exactly once before it returns,
\* and no view is destroyed that was not created.
C32_ImageViews ==
    /\ Returned("tonemap") => \A v \in ImageViews : ReleasedExactlyOnce(v)
    /\ (\E e \in TonemapFailures : Has(e)) =>
         Returned("tonemap") /\ ret["tonemap"] = -1

C32_Witness ==
    /\ Has(Ev("tm: wait failed"))
    /\ Returned("tonemap") /\ ret["tonemap"] = -1
    /\ \A v \in ImageViews : Count(Acq(v)) = 1 /\ Count(Rel(v)) = 1

----------------------------------------------------------------------------
\* The host touches the destination of the DMA path / of the compute path.
IsDmaHostAccess(e) ==
    e = Acq("dst_cpu") \/ (e.k = "convert_to_rgb24" /\ e.r = "dst_cpu")
IsComputeHostAccess(e) ==
    e = Acq("mapped_data") \/ (e.k = "convert_to_rgb24" /\ e.r = "dst_image")

DmaCompletionFailures == {Ev("copy: submit failed"), Ev("copy: fence wait failed")}
ComputeCompletionFailures ==
    {Ev("vk: copy submit failed"), Ev("vk: copy wait failed"),
     Ev("tm: submit failed"), Ev("tm: wait failed")}

\* C33: host reads only after GPU completion.  In the DMA path the
\* destination BO is CPU-mapped and read only after the command stream was
\* submitted and the fence wait returned without error; in the compute path
\* the final image memory is mapped and read only after every submitted
\* command buffer was followed by a successful queue-idle wait; when a
\* submit or a wait fails the host never reads the buffer and the strategy
\* returns failure.
C33_HostReadsAfterCompletion ==
    LET submit == At(Ev("amdgpu_cs_submit"))
        fence == At(Ev("fence signalled"))
        copy == At(Ev("vkQueueSubmit:copy"))
        copied == At(Ev("vkQueueWaitIdle:copy"))
        tone == At(Ev("vkQueueSubmit:tonemap"))
        toned == At(Ev("vkQueueWaitIdle:tonemap"))
    IN /\ \A n \in DOMAIN log :
            /\ IsDmaHostAccess(log[n]) =>
                 /\ 0 < submit /\ submit < fence /\ fence < n
                 /\ \A e \in DmaCompletionFailures : ~Has(e)
            /\ IsComputeHostAccess(log[n]) =>
                 /\ 0 < copy /\ copy < copied /\ copied < n
                 /\ tone > 0 => (tone < toned /\ toned < n)
                 /\ \A e \in ComputeCompletionFailures : ~Has(e)
       /\ (\E e \in DmaCompletionFailures : Has(e)) =>
            Returned("amdgpu") /\ ret["amdgpu"] < 0
       /\ ((\E e \in ComputeCompletionFailures : Has(e)) /\ Returned("vk")) =>
            ret["vk"] < 0

\* The DMA path has read its destination after the fence, in a run whose
\* compute path failed at a queue-idle wait without reading anything.
C33_Witness ==
    /\ Has(Ev("vk: copy wait failed")) /\ ~Has(Acq("mapped_data"))
    /\ Returned("vk") /\ ret["vk"] < 0
    /\ Has(Ev("fence signalled"))
    /\ \E n \in DOMAIN log : log[n].k = "convert_to_rgb24" /\ log[n].r = "dst_cpu"

----------------------------------------------------------------------------
\* The transitions the program records, taken apart: layouts and stages.
Transitions ==
    {[text |-> "UNDEFINED->TRANSFER_SRC_OPTIMAL TOP_OF_PIPE->TRANSFER",
      old |-> "UNDEFINED", new |-> "TRANSFER_SRC_OPTIMAL",
      src |-> "TOP_OF_PIPE", dst |-> "TRANSFER"],
     [text |-> "UNDEFINED->TRANSFER_DST_OPTIMAL TOP_OF_PIPE->TRANSFER",
      old |-> "UNDEFINED", new |-> "TRANSFER_DST_OPTIMAL",
      src |-> "TOP_OF_PIPE", dst |-> "TRANSFER"],
     [text |-> "UNDEFINED->GENERAL TOP_OF_PIPE->COMPUTE_SHADER",
      old |-> "UNDEFINED", new |-> "GENERAL",
      src |-> "TOP_OF_PIPE", dst |-> "COMPUTE_SHADER"],
     [text |-> "GENERAL->GENERAL COMPUTE_SHADER->HOST",
      old |-> "GENERAL", new |-> "GENERAL",
      src |-> "COMPUTE_SHADER", dst |-> "HOST"]}
TransitionOf(e) == CHOOSE t \in Transitions : t.text = e.a

IsBarrierOn(e, image) == e.k = "barrier" /\ e.r = image
\* e is a recorded command that writes image
IsGpuWrite(e, image) == e.k \in {"vkCmdCopyImage", "vkCmdDispatch"} /\ e.a = image
\* e is a recorded command that reads image
IsGpuRead(e, image) == e.k \in {"vkCmdCopyImage", "vkCmdDispatch"} /\ e.r = image
IsEndCommandBuffer(e) == e \in {Ev("vkEndCommandBuffer"), Ev("tm:vkEndCommandBuffer")}

\* The positions at which the host reads the mapped image image.
HostReads(image) ==
    {n \in DOMAIN log : log[n].k = "convert_to_rgb24" /\ log[n].r = image}
GpuWrites(image, n) == {w \in 1..(n - 1) : IsGpuWrite(log[w], image)}

\* Before position n the last GPU write to image is followed in its command
\* buffer by a barrier on image from stage to HOST.
MadeVisible(image, n, stage) ==
    /\ GpuWrites(image, n) # {}
    /\ LET w == CHOOSE x \in GpuWrites(image, n) :
                  \A y \in GpuWrites(image, n) : y <= x
       IN \E b \in (w + 1)..(n - 1) :
            /\ IsBarrierOn(log[b], image)
            /\ TransitionOf(log[b]).src = stage /\ TransitionOf(log[b]).dst = "HOST"
            /\ \A j \in w..b : ~IsEndCommandBuffer(log[j])

\* C34: host-visibility barriers.  Whenever the host reads the mapped image
\* of the external-import strategy, the last GPU write to it is followed, in
\* the same command buffer, by a barrier to the HOST stage: TRANSFER->HOST
\* for the image produced by the copy (SDR), COMPUTE->HOST for the image
\* produced by the tone-map kernel (HDR).
C34_HostVisibility ==
    \A n \in HostReads("dst_image") :
        MadeVisible("dst_image", n,
                    IF needs_tone_mapping THEN "COMPUTE_SHADER" ELSE "TRANSFER")

\* The HDR half holds.
HdrHostVisibility ==
    needs_tone_mapping =>
        \A n \in HostReads("dst_image") : MadeVisible("dst_image", n, "COMPUTE_SHADER")

\* For an SDR format nothing is recorded at all: no write, no barrier.
SdrNothingRecorded ==
    ~needs_tone_mapping =>
        \A n \in DOMAIN log :
            log[n].k \notin {"barrier", "vkCmdCopyImage", "vkCmdDispatch"}

----------------------------------------------------------------------------
\* The barriers on image before position n.
BarriersBefore(image, n) == {b \in 1..(n - 1) : IsBarrierOn(log[b], image)}

\* The layout image is in just before position n: every image is created
\* with initialLayout UNDEFINED, and a barrier leaves it in its newLayout.
LayoutAt(image, n) ==
    IF BarriersBefore(image, n) = {} THEN "UNDEFINED"
    ELSE LET b == CHOOSE x \in BarriersBefore(image, n) :
                    \A y \in BarriersBefore(image, n) : y <= x
         IN TransitionOf(log[b]).new

\* The contents of image are read at position n, by the GPU or by the host.
IsRead(n, image) ==
    IsGpuRead(log[n], image) \/ (log[n].k = "convert_to_rgb24" /\ log[n].r = image)

\* Position b lies between a GPU write of image and a later read of what
\* was written.
ContentsLiveAt(image, b) ==
    \E w \in 1..(b - 1) : \E r \in (b + 1)..Len(log) :
        /\ IsGpuWrite(log[w], image) /\ IsRead(r, image)
        /\ \A j \in (w + 1)..(r - 1) : ~IsGpuWrite(log[j], image)

\* C35: image layout tracking.  Every barrier names as oldLayout the layout
\* the image is in, and no barrier with oldLayout UNDEFINED is applied to an
\* image between a GPU write of its contents and a later read of them; the
\* intermediate image is in GENERAL layout when the kernel reads it.
C35_LayoutTracking ==
    \A n \in DOMAIN log :
        /\ log[n].k = "barrier" =>
             /\ TransitionOf(log[n]).old = LayoutAt(log[n].r, n)
             /\ TransitionOf(log[n]).old = "UNDEFINED" => ~ContentsLiveAt(log[n].r, n)
        /\ log[n].k = "vkCmdDispatch" =>
             LayoutAt(log[n].r, n) = "GENERAL" /\ LayoutAt(log[n].a, n) = "GENERAL"

\* What the code keeps: both images are in GENERAL layout at the dispatch
\* and the copy finds its images in the transfer layouts.
LayoutsAtCommands ==
    \A n \in DOMAIN log :
        /\ log[n].k = "vkCmdDispatch" =>
             LayoutAt(log[n].r, n) = "GENERAL" /\ LayoutAt(log[n].a, n) = "GENERAL"
        /\ log[n].k = "vkCmdCopyImage" =>
             /\ LayoutAt(log[n].r, n) = "TRANSFER_SRC_OPTIMAL"
             /\ LayoutAt(log[n].a, n) = "TRANSFER_DST_OPTIMAL"

\* The one barrier that breaks the rule is the UNDEFINED->GENERAL barrier on
\* the intermediate image, which the copy left in TRANSFER_DST_OPTIMAL.
OnlyIntermediateDiscarded ==
    \A n \in DOMAIN log :
        (log[n].k = "barrier" /\ TransitionOf(log[n]).old # LayoutAt(log[n].r, n)) =>
            /\ log[n] = Barrier("intermediate_image",
                                "UNDEFINED->GENERAL TOP_OF_PIPE->COMPUTE_SHADER")
            /\ LayoutAt("intermediate_image", n) = "TRANSFER_DST_OPTIMAL"

----------------------------------------------------------------------------
DispatchDone == pc = "dispatch_done"
\* The pixels of the image and the invocations of the dispatch.
ImagePixels == (0..(imageSize[1] - 1)) \X (0..(imageSize[2] - 1))
Invocations ==
    (0..(group_count[1] * local_size - 1)) \X (0..(group_count[2] * local_size - 1))

\* C36: dispatch coverage.  Dispatching ceil(w/16) x ceil(h/16) workgroups
\* of 16 x 16 makes exactly one invocation process each pixel (x, y) with
\* x < w and y < h, and every invocation whose coordinates fall outside the
\* image returns without loading or storing any pixel.
C36_DispatchCoverage ==
    /\ DOMAIN loads \subseteq ImagePixels /\ DOMAIN stores \subseteq ImagePixels
    /\ \A p \in DOMAIN loads : loads[p] = 1
    /\ \A p \in DOMAIN stores : stores[p] = 1
    /\ skipped \cap ImagePixels = {}
    /\ DispatchDone =>
         /\ DOMAIN loads = ImagePixels /\ DOMAIN stores = ImagePixels
         /\ skipped = Invocations \ ImagePixels

\* A dispatch of four workgroups is done, with invocations outside the image.
C36_Witness ==
    /\ DispatchDone
    /\ group_count = <<2, 2>>
    /\ Cardinality(DOMAIN stores) = imageSize[1] * imageSize[2]
    /\ skipped # {}

----------------------------------------------------------------------------
\* n + 1 for a dword below 2^32 - 1
Successor(d) == IF d[2] < 65535 THEN <<d[1], d[2] + 1>> ELSE <<d[1] + 1, 0>>
\* The 64-bit value whose low and high dwords are lo and hi.
Joined(lo, hi) == <<hi[1], hi[2], lo[1], lo[2]>>
\* 1 <= n < 2^32
CopySizeInRange == copy_size[1] = 0 /\ copy_size[2] = 0 /\ copy_size # <<0, 0, 0, 0>>
PacketDone == pc = "copy_packet_done"
FenceWaited == fence_status.timeout # ""

\* C37: DMA copy packet.  For every source and destination VA below 2^64
\* and every size n with 1 <= n < 2^32 the command stream is exactly the 7
\* dwords [1, n - 1, 0, src mod 2^32, src div 2^32, dst mod 2^32,
\* dst div 2^32]; it is submitted once, as a single IB of 7 dwords on the
\* DMA IP, ring 0; and the fence waited on, with an infinite timeout,
\* carries the sequence number that submission returned.
C37_CopyPacket ==
    /\ Len(submitted) <= 1
    /\ (submitted # <<>> /\ CopySizeInRange) =>
         LET s == submitted[1]
         IN /\ Len(s.ib) = 7
            /\ s.ib[1] = <<0, 1>>
            /\ s.ib[2] # <<65535, 65535>> /\ Successor(s.ib[2]) = <<copy_size[3], copy_size[4]>>
            /\ s.ib[3] = <<0, 0>>
            /\ Joined(s.ib[4], s.ib[5]) = src_va
            /\ Joined(s.ib[6], s.ib[7]) = dst_va
            /\ s.request.ip_type = "AMDGPU_HW_IP_DMA" /\ s.request.ring = 0
            /\ s.request.number_of_ibs = 1 /\ s.request.ib_size = 7
    /\ FenceWaited =>
         /\ Len(submitted) = 1
         /\ fence_status.fence = ibs_request.seq_no
         /\ fence_status.ip_type = "AMDGPU_HW_IP_DMA" /\ fence_status.ring = 0
         /\ fence_status.timeout = "AMDGPU_TIMEOUT_INFINITE"
    /\ (PacketDone /\ ~FenceWaited) => (submitted = <<>> /\ ret["copy"] = -1)

\* A copy of 65536 bytes from an address above 2^32 was submitted and waited
\* for with the second sequence number.
C37_Witness ==
    /\ PacketDone /\ FenceWaited
    /\ copy_size = <<0, 0, 1, 0>> /\ src_va = <<0, 1, 0, 4096>>
    /\ submitted[1].ib[2] = <<0, 65535>>
    /\ fence_status.fence = 2

----------------------------------------------------------------------------
(* C38: the range of the tone-curve operators, before the clamp of step 7 *)

CurveMapped == pc \in {"tone_clamp", "tone_done"}
CurveClamped == pc = "tone_done"
CurveMode(m) == curve.tonemapMode = <<0, m>>

\* 0 <= x <= 1
InUnit(x) == ~FracLess(x, Zero) /\ ~FracLess(One, x)
IsGray(c) == c[1] = c[2] /\ c[2] = c[3]

\* C38 as stated: for every operator and every input with non-negative
\* channels, every channel of the operator's own output, before the clamp of
\* step 7, lies in [0,1].
C38_OperatorRange ==
    CurveMapped => \A i \in 1..3 : InUnit(curve.mapped[i])

\* C38: of the operators enumerated only Reinhard (mode 0) maps every input
\* with non-negative channels into [0,1].  A channel of Reinhard-Extended
\* (mode 6) is at most 1 exactly when its input is at most the white point 4,
\* a channel of Hable (mode 5) exactly when its input is at most 11.2 / 2;
\* neither is negative.  ACES-Hill (mode 2 and the default) maps black to
\* three negative channels, and the ACES operators of modes 1, 2 and 3 map a
\* gray of level 4 or more to a red channel above 1.  After the clamp of
\* step 7 every channel of every operator lies in [0,1].
OperatorRange ==
    /\ CurveMapped =>
         /\ CurveMode(0) =>
              \A i \in 1..3 : InUnit(curve.mapped[i]) /\ FracLess(curve.mapped[i], One)
         /\ CurveMode(6) =>
              \A i \in 1..3 :
                  /\ ~FracLess(curve.mapped[i], Zero)
                  /\ ~FracLess(One, curve.mapped[i])
                       <=> ~FracLess(Dec(4, 0), curve.before[i])
         /\ CurveMode(5) =>
              \A i \in 1..3 :
                  /\ ~FracLess(curve.mapped[i], Zero)
                  /\ ~FracLess(One, curve.mapped[i])
                       <=> ~FracLess(Dec(56, 1), curve.before[i])
         /\ (CurveMode(2) \/ CurveMode(8)) /\ curve.before = vec3(Zero) =>
              \A i \in 1..3 : FracLess(curve.mapped[i], Zero)
         /\ /\ CurveMode(1) \/ CurveMode(2) \/ CurveMode(3)
            /\ IsGray(curve.before)
            /\ ~FracLess(curve.before[1], Dec(4, 0))
            => FracLess(One, curve.mapped[1])
    /\ CurveClamped => \A i \in 1..3 : InUnit(curve.clamped[i])

\* Reinhard-Extended at 32 has left the range, 96/33, and step 7 has brought
\* it back to 1.
C38_Witness ==
    /\ CurveClamped
    /\ CurveMode(6) /\ curve.before = vec3(Dec(32, 0))
    /\ FracSub(curve.mapped[1], FracDiv(Dec(96, 0), Dec(33, 0))).num = <<>>
    /\ FracLess(One, curve.mapped[1]) /\ curve.clamped = vec3(One)

----------------------------------------------------------------------------
(* C39: the expansion of an RGB565 pixel by convert_to_rgb24 *)

PixelConverted == pc = "data_write" /\ fb.pixel_format = "RGB565" /\ fb.width = 1
\* the uint16_t the framebuffer holds
PixelOf(mem) == mem[2] * 256 + mem[1]

\* C39: for every 16-bit RGB565 pixel p, convert_to_rgb24 stores R, G, B
\* whose low 3, 2 and 3 bits are zero and whose remaining bits are the bits
\* 15..11, 10..5 and 4..0 of p, blue in the least significant bits; 0xFFFF
\* yields (248, 252, 248) and no channel is 255.
RGB565Expansion ==
    PixelConverted =>
        LET p == PixelOf(fb.mem)
            R == rgb_data[1]
            G == rgb_data[2]
            B == rgb_data[3]
        IN /\ R % 8 = 0 /\ G % 4 = 0 /\ B % 8 = 0
           /\ R \div 8 \in 0..31 /\ G \div 4 \in 0..63 /\ B \div 8 \in 0..31
           /\ (R \div 8) * 2048 + (G \div 4) * 32 + B \div 8 = p
           /\ 255 \notin {R, G, B}
           /\ p = 65535 => <<R, G, B>> = <<248, 252, 248>>

\* The full-scale pixel 0xFFFF has been converted to (248, 252, 248).
C39_Witness ==
    /\ PixelConverted
    /\ fb.mem = <<255, 255>>
    /\ SubSeq(rgb_data, 1, 3) = <<248, 252, 248>>

----------------------------------------------------------------------------
(* C40: the compute context and the tone-map pipeline objects are          *)
(* destroyed exactly once                                                  *)

ContextObjects == {"instance", "device", "command_pool"}
TonemapPipelineObjects == ComputePipelineObjects \cup {"shader_module"}

\* The orchestrator is past its compute branch: it has returned or has
\* called capture_framebuffer_amdgpu.
OrchLeft == Returned("orch") \/ Has(Ev("enter:capture_framebuffer_amdgpu"))

\* r was created at most once and is destroyed only after its creation and
\* not more often than created.
NeverTwice(r) ==
    /\ Count(Acq(r)) <= 1
    /\ Count(Rel(r)) <= Count(Acq(r))
    /\ Precedes(Acq(r), Rel(r))

\* C40: on every path through capture_framebuffer_with_vulkan_fallback each
\* instance, device and command pool that was created is destroyed exactly
\* once: by init_vulkan_context before it returns when it fails, otherwise
\* not before vulkan_deswizzle_framebuffer has returned and then by
\* cleanup_vulkan_context, before the DMA path starts.  Each tone-map
\* pipeline object is destroyed exactly once: by
\* create_tonemap_compute_pipeline before it returns when it fails, otherwise
\* (but for the shader module, which it destroys itself) not before the
\* compute path's cleanup.
ContextDestroyedOnce ==
    /\ \A r \in ContextObjects \cup TonemapPipelineObjects : NeverTwice(r)
    /\ OrchLeft =>
         \A r \in ContextObjects \cup TonemapPipelineObjects : ReleasedExactlyOnce(r)
    /\ Has(Ev("enter:capture_framebuffer_amdgpu")) =>
         \A r \in ContextObjects \cup TonemapPipelineObjects :
             Has(Rel(r)) => Last(Rel(r)) < First(Ev("enter:capture_framebuffer_amdgpu"))
    /\ (Returned("init") /\ ret["init"] # 0) =>
         \A r \in ContextObjects : Count(Rel(r)) = Count(Acq(r))
    /\ (Returned("init") /\ ret["init"] = 0 /\ ~Returned("vk")) =>
         \A r \in ContextObjects : Has(Acq(r)) /\ ~Has(Rel(r))
    /\ (Returned("create_pipeline") /\ ret["create_pipeline"] # 0) =>
         \A r \in TonemapPipelineObjects : Count(Rel(r)) = Count(Acq(r))
    /\ (Returned("create_pipeline") /\ ret["create_pipeline"] = 0) =>
         /\ ReleasedExactlyOnce("shader_module") /\ Has(Rel("shader_module"))
         /\ \A r \in ComputePipelineObjects :
                /\ Has(Acq(r))
                /\ ~Returned("vk") => ~Has(Rel(r))

\* The pipeline was unwound at the descriptor pool, the context was cleaned
\* up and the DMA path has started.
C40_Witness ==
    /\ Has(Ev("vkCreateDescriptorPool failed"))
    /\ Has(Rel("compute_pipeline")) /\ Has(Rel("command_pool"))
    /\ Has(Rel("instance"))
    /\ Has(Ev("enter:capture_framebuffer_amdgpu"))

\* Initialization failed at the command pool and unwound itself, and the
\* DMA path has started.
C40_InitUnwound ==
    /\ Has(Ev("vkCreateCommandPool failed"))
    /\ Has(Rel("device")) /\ Has(Rel("instance"))
    /\ Has(Ev("enter:capture_framebuffer_amdgpu"))
====
